---- MODULE Spec2Model ----
(***************************************************************************)
(* Model of the PlagiarismControl backend: the detection engine            *)
(* (plagiarism-detector.js: CodeNormalizer, NotebookParser,                *)
(* PlagiarismDetector) and the POST /api/analyze handler of server.js.     *)
(*                                                                         *)
(* Texts are sequences of one-character strings.  Similarities are exact   *)
(* rationals <<numerator, denominator>>; a reported similarity is kept in  *)
(* hundredths of a percent (10000 stands for 100.00), a request threshold  *)
(* in hundredths (50 stands for 0.5).                                      *)
(***************************************************************************)
EXTENDS Integers, Sequences, FiniteSets, TLC

VARIABLES
    files,             \* db.collection('files'): the stored file records
    analysis_results,  \* db.collection('analysis_results')
    pc,                \* position of the analyze handler / detector
    threshold,         \* req.body.threshold, detector.threshold
    normalizeVars,     \* detector.normalizeVars
    filesData,         \* argument of detectPlagiarism
    processedFiles,    \* detectPlagiarism: processedFiles
    k,                 \* detectPlagiarism: position of the extraction loop
    i,                 \* detectPlagiarism: outer index of the pair loop
    j,                 \* detectPlagiarism: inner index of the pair loop
    results,           \* detectPlagiarism: results
    res,               \* the HTTP response of the handler
    fileReads,         \* file_ids whose notebook has been read (fs.readFile)
    pairsScored,       \* number of pairs scored so far
    clock,             \* wall clock read by new Date()
    disk,              \* the upload directory: file_path -> content of the file
    analysisResult,    \* analyze handler: the record built from the detector's results
    code1,             \* scorer harness: first normalized text
    code2,             \* scorer harness: second normalized text
    scoreAB,           \* scorer harness: reported score of (code1, code2)
    scoreBA,           \* scorer harness: reported score of (code2, code1)
    rawA,              \* normalizer harness: raw code of a submission
    rawB,              \* normalizer harness: raw code of a second submission
    normA,             \* normalizer harness: normalizeCode(rawA)
    normB,             \* normalizer harness: normalizeCode(rawB)
    renormA,           \* normalizer harness: normalizeCode(normA)
    renormB,           \* normalizer harness: normalizeCode(normB)
    linesA,            \* findMatchingLines: lines1, the lines of code1
    linesB,            \* findMatchingLines: lines2, the lines of code2
    scanned,           \* findMatchingLines: lines of code1 the loop has gone through (i)
    matches,           \* findMatchingLines: matches
    reqs,              \* the HTTP requests in flight: route, token, position, locals
    nextUuid,          \* the next value uuidv4() gives
    served,            \* analyze requests answered so far
    lineMatched,       \* detectPlagiarism: the pairs findMatchingLines was called for
    notebook,          \* extractCodeFromNotebook: the content found at filePath
    cellAt,            \* extractCodeFromNotebook: position of the loop over notebook.cells
    codeCells,         \* extractCodeFromNotebook: codeCells
    extracted,         \* extractCodeFromNotebook: the text returned
    admins,            \* db.collection('admins')
    regs               \* the register requests in flight: body, position, answer

vars == <<files, analysis_results, pc, threshold, normalizeVars, filesData,
          processedFiles, k, i, j, results, res, fileReads, pairsScored, clock,
          disk, analysisResult, code1, code2, scoreAB, scoreBA, rawA, rawB, normA,
          normB, renormA, renormB, linesA, linesB, scanned, matches, reqs, nextUuid,
          served, lineMatched, notebook, cellAt, codeCells, extracted, admins, regs>>

analyzerVars == <<files, analysis_results, pc, threshold, normalizeVars, filesData,
                  processedFiles, k, i, j, results, res, fileReads, pairsScored, clock,
                  disk, analysisResult>>

scorerVars == <<code1, code2, scoreAB, scoreBA>>

normalizerVars == <<rawA, rawB, normA, normB, renormA, renormB>>

\* the variables of the harnesses, which the request handlers leave alone
matcherVars == <<linesA, linesB, scanned, matches>>

\* the variables of the concurrent requests
serverVars == <<reqs, nextUuid>>

\* what is recorded across the analyze requests served one after the other
runVars == <<served, lineMatched>>

\* the variables of the extractor taken by itself
extractorVars == <<notebook, cellAt, codeCells, extracted>>

\* the variables of the register route
registerVars == <<admins, regs>>

harnessVars == <<scorerVars, normalizerVars, matcherVars, serverVars, runVars,
                 extractorVars, registerVars>>

(***************************************************************************)
(* Characters and strings                                                  *)
(***************************************************************************)
NL == "\n"

LowerSeq == <<"a","b","c","d","e","f","g","h","i","j","k","l","m",
              "n","o","p","q","r","s","t","u","v","w","x","y","z">>

UpperSeq == <<"A","B","C","D","E","F","G","H","I","J","K","L","M",
              "N","O","P","Q","R","S","T","U","V","W","X","Y","Z">>

DigitSeq == <<"0","1","2","3","4","5","6","7","8","9">>

Range(s) == {s[n] : n \in DOMAIN s}

Letters == Range(LowerSeq) \cup Range(UpperSeq)

\* [a-zA-Z0-9_], the class behind \b and behind the tokenizers
WordChars == Letters \cup Range(DigitSeq) \cup {"_"}

\* what String.prototype.trim and \s treat as white space (of the model's characters)
Whitespace == {" ", "\t", NL, "\r"}

Min(a, b) == IF a <= b THEN a ELSE b

Max(a, b) == IF a >= b THEN a ELSE b

\* String.prototype.toLowerCase on one character
ToLowerChar(c) ==
    IF c \in Range(UpperSeq)
    THEN LowerSeq[CHOOSE n \in DOMAIN UpperSeq : UpperSeq[n] = c]
    ELSE c

RECURSIVE toLowerCase(_)
toLowerCase(s) ==
    IF s = <<>> THEN <<>> ELSE <<ToLowerChar(s[1])>> \o toLowerCase(Tail(s))

\* s.split('\n'): the pieces between line breaks, empty pieces included
RECURSIVE SplitLines(_)
SplitLines(s) ==
    LET breaks == {n \in DOMAIN s : s[n] = NL}
    IN  IF breaks = {} THEN <<s>>
        ELSE LET first == CHOOSE n \in breaks : \A m \in breaks : n <= m
             IN  <<SubSeq(s, 1, first - 1)>> \o SplitLines(SubSeq(s, first + 1, Len(s)))

\* pieces.join(sep)
RECURSIVE Join(_, _)
Join(pieces, sep) ==
    IF pieces = <<>> THEN <<>>
    ELSE IF Len(pieces) = 1 THEN pieces[1]
    ELSE pieces[1] \o sep \o Join(Tail(pieces), sep)

\* String.prototype.trim
RECURSIVE TrimLeft(_)
TrimLeft(s) ==
    IF s # <<>> /\ s[1] \in Whitespace THEN TrimLeft(Tail(s)) ELSE s

RECURSIVE TrimRight(_)
TrimRight(s) ==
    IF s # <<>> /\ s[Len(s)] \in Whitespace
    THEN TrimRight(SubSeq(s, 1, Len(s) - 1))
    ELSE s

trim(s) == TrimRight(TrimLeft(s))

\* the maximal runs of word characters of s, in order (with their start positions)
RECURSIVE WordRunsFrom(_, _)
WordRunsFrom(s, n) ==
    IF n > Len(s) THEN <<>>
    ELSE IF s[n] \notin WordChars THEN WordRunsFrom(s, n + 1)
    ELSE LET stop == CHOOSE e \in n..Len(s) :
                         /\ \A m \in n..e : s[m] \in WordChars
                         /\ (e = Len(s) \/ s[e + 1] \notin WordChars)
         IN  <<SubSeq(s, n, stop)>> \o WordRunsFrom(s, stop + 1)

WordRuns(s) == WordRunsFrom(s, 1)

\* the decimal digits of a natural number, as `var${varCounter}` prints it
RECURSIVE Decimal(_)
Decimal(n) ==
    IF n < 10 THEN <<DigitSeq[n + 1]>>
    ELSE Decimal(n \div 10) \o <<DigitSeq[(n % 10) + 1]>>

(***************************************************************************)
(* CodeNormalizer                                                          *)
(***************************************************************************)
\* code.replace(/#.*$/gm, ''): from each '#' to the end of its line ('.' stops at a
\* line terminator)
RECURSIVE StripHash(_, _, _)
StripHash(code, n, inComment) ==
    IF n > Len(code) THEN <<>>
    ELSE IF code[n] \in {NL, "\r"} THEN <<code[n]>> \o StripHash(code, n + 1, FALSE)
    ELSE IF inComment \/ code[n] = "#" THEN StripHash(code, n + 1, TRUE)
    ELSE <<code[n]>> \o StripHash(code, n + 1, FALSE)

IsTriple(code, n, q) ==
    n + 2 <= Len(code) /\ code[n] = q /\ code[n + 1] = q /\ code[n + 2] = q

\* code.replace(/qqq[\s\S]*?qqq/g, ''): leftmost opening delimiter, nearest closing one
RECURSIVE StripTriple(_, _, _)
StripTriple(code, n, q) ==
    IF n > Len(code) THEN <<>>
    ELSE LET closers == {c \in (n + 3)..Len(code) : IsTriple(code, c, q)}
         IN  IF IsTriple(code, n, q) /\ closers # {}
             THEN StripTriple(code, (CHOOSE c \in closers : \A d \in closers : c <= d) + 3, q)
             ELSE <<code[n]>> \o StripTriple(code, n + 1, q)

removeComments(code) ==
    LET c1 == StripHash(code, 1, FALSE)
        c2 == StripTriple(c1, 1, "\"")
    IN  StripTriple(c2, 1, "'")

RECURSIVE StrippedLines(_)
StrippedLines(lines) ==
    IF lines = <<>> THEN <<>>
    ELSE LET stripped == trim(lines[1])
         IN  IF stripped # <<>>
             THEN <<stripped>> \o StrippedLines(Tail(lines))
             ELSE StrippedLines(Tail(lines))

normalizeWhitespace(code) == Join(StrippedLines(SplitLines(code)), <<NL>>)

keywords == {
    <<"d","e","f">>, <<"c","l","a","s","s">>, <<"i","m","p","o","r","t">>,
    <<"f","r","o","m">>, <<"i","f">>, <<"e","l","s","e">>, <<"e","l","i","f">>,
    <<"f","o","r">>, <<"w","h","i","l","e">>, <<"r","e","t","u","r","n">>,
    <<"t","r","y">>, <<"e","x","c","e","p","t">>, <<"f","i","n","a","l","l","y">>,
    <<"w","i","t","h">>, <<"a","s">>, <<"b","r","e","a","k">>,
    <<"c","o","n","t","i","n","u","e">>, <<"p","a","s","s">>, <<"r","a","i","s","e">>,
    <<"a","s","s","e","r","t">>, <<"y","i","e","l","d">>, <<"l","a","m","b","d","a">>,
    <<"T","r","u","e">>, <<"F","a","l","s","e">>, <<"N","o","n","e">>, <<"a","n","d">>,
    <<"o","r">>, <<"n","o","t">>, <<"i","n">>, <<"i","s">>, <<"p","r","i","n","t">>,
    <<"r","a","n","g","e">>, <<"l","e","n">>, <<"s","t","r">>, <<"i","n","t">>,
    <<"f","l","o","a","t">>, <<"l","i","s","t">>, <<"d","i","c","t">>, <<"s","e","t">>,
    <<"t","u","p","l","e">>, <<"o","p","e","n">>, <<"f","i","l","e">> }

\* code.match(/\b[a-zA-Z_][a-zA-Z0-9_]*\b/g): the word runs that do not start with a digit
identifierTokens(code) ==
    SelectSeq(WordRuns(code), LAMBDA w : w[1] \notin Range(DigitSeq))

\* the keys of varMapping in insertion order: distinct non-keyword tokens, first seen first
RECURSIVE MappedNames(_, _)
MappedNames(tokens, seen) ==
    IF tokens = <<>> THEN seen
    ELSE IF tokens[1] \notin keywords /\ tokens[1] \notin Range(seen)
         THEN MappedNames(Tail(tokens), Append(seen, tokens[1]))
         ELSE MappedNames(Tail(tokens), seen)

\* text.replace(new RegExp(`\\b${original}\\b`, 'g'), normalized)
RECURSIVE ReplaceWord(_, _, _, _)
ReplaceWord(text, n, original, normalized) ==
    IF n > Len(text) THEN <<>>
    ELSE IF text[n] \notin WordChars
         THEN <<text[n]>> \o ReplaceWord(text, n + 1, original, normalized)
         ELSE LET stop == CHOOSE e \in n..Len(text) :
                              /\ \A m \in n..e : text[m] \in WordChars
                              /\ (e = Len(text) \/ text[e + 1] \notin WordChars)
                  run  == SubSeq(text, n, stop)
              IN  (IF run = original THEN normalized ELSE run)
                      \o ReplaceWord(text, stop + 1, original, normalized)

\* the second loop of normalizeVariableNames: one replace per mapping entry, in order,
\* each applied to the text the previous one produced
RECURSIVE ApplyMapping(_, _, _)
ApplyMapping(text, names, n) ==
    IF n > Len(names) THEN text
    ELSE ApplyMapping(ReplaceWord(text, 1, names[n], <<"v","a","r">> \o Decimal(n - 1)),
                      names, n + 1)

normalizeVariableNames(code) ==
    ApplyMapping(code, MappedNames(identifierTokens(code), <<>>), 1)

normalizeCode(code, normVars) ==
    LET c1 == removeComments(code)
        c2 == normalizeWhitespace(c1)
    IN  IF normVars THEN normalizeVariableNames(c2) ELSE c2

(***************************************************************************)
(* NotebookParser                                                          *)
(***************************************************************************)
\* the texts pushed to codeCells: cells typed "code" whose source is truthy; an array
\* source is joined without separator, a string source is taken as it is
RECURSIVE CodeCells(_)
CodeCells(cells) ==
    IF cells = <<>> THEN <<>>
    ELSE LET cell   == cells[1]
             truthy == cell.source.array \/ Join(cell.source.parts, <<>>) # <<>>
         IN  IF cell.cell_type = "code" /\ truthy
             THEN <<Join(cell.source.parts, <<>>)>> \o CodeCells(Tail(cells))
             ELSE CodeCells(Tail(cells))

\* extractCodeFromNotebook against the content found at the path: an unreadable file,
\* a JSON syntax error and a cell list that cannot be walked all throw inside the try
\* block and end in the catch clause's return ''
extractCodeFromNotebook(content) ==
    IF ~content.readable THEN <<>>
    ELSE IF content.json # "object" THEN <<>>
    ELSE IF content.cells = "missing" THEN <<>>
    ELSE IF content.cells # "list" THEN <<>>
    ELSE Join(CodeCells(content.list), <<NL, NL>>)

(***************************************************************************)
(* PlagiarismDetector: hashing and scoring                                 *)
(***************************************************************************)
\* md5 of the text; the digest is modelled as a tagged copy of the text (no collisions)
calculateCodeHash(code) == <<"md5", code>>

\* first.replace(/\s+/g, '')
removeWhitespace(s) == SelectSeq(s, LAMBDA c : c \notin Whitespace)

\* first.substring(i, i + 2) for i = 0 .. first.length - 2
RECURSIVE Bigrams(_)
Bigrams(s) ==
    IF Len(s) < 2 THEN <<>> ELSE << <<s[1], s[2]>> >> \o Bigrams(Tail(s))

\* the second loop of compareTwoStrings: each bigram of the second string uses up one
\* remaining occurrence of the same bigram of the first
RECURSIVE IntersectionSize(_, _, _)
IntersectionSize(bigrams, n, remaining) ==
    IF n > Len(bigrams) THEN 0
    ELSE LET b == bigrams[n]
         IN  IF b \in DOMAIN remaining /\ remaining[b] > 0
             THEN 1 + IntersectionSize(bigrams, n + 1, [remaining EXCEPT ![b] = @ - 1])
             ELSE IntersectionSize(bigrams, n + 1, remaining)

\* stringSimilarity.compareTwoStrings (Dice coefficient over character bigrams)
compareTwoStrings(first, second) ==
    LET a  == removeWhitespace(first)
        b  == removeWhitespace(second)
        ba == Bigrams(a)
        firstBigrams == [g \in Range(ba) |-> Cardinality({n \in DOMAIN ba : ba[n] = g})]
    IN  IF a = b THEN <<1, 1>>
        ELSE IF Len(a) < 2 \/ Len(b) < 2 THEN <<0, 1>>
        ELSE <<2 * IntersectionSize(Bigrams(b), 1, firstBigrams), Len(a) + Len(b) - 2>>

\* ratio > num/den
Exceeds(ratio, num, den) == ratio[1] * den > num * ratio[2]

\* natural.WordTokenizer().tokenize(code.toLowerCase()), as a set
TokenSet(code) == Range(WordRuns(toLowerCase(code)))

NonBlankLines(code) == SelectSeq(SplitLines(code), LAMBDA line : trim(line) # <<>>)

\* the nested loop of calculateSimilarity: lines of lines1 with a line of lines2 above 0.8
MatchingLineCount(lines1, lines2) ==
    Cardinality({n \in DOMAIN lines1 :
                    \E m \in DOMAIN lines2 :
                        Exceeds(compareTwoStrings(lines1[n], lines2[m]), 8, 10)})

calculateSimilarity(c1, c2) ==
    IF c1 = <<>> \/ c2 = <<>> THEN <<0, 1>>
    ELSE LET stringSim  == compareTwoStrings(c1, c2)
             set1       == TokenSet(c1)
             set2       == TokenSet(c2)
             jaccardSim == IF set1 \cup set2 # {}
                           THEN <<Cardinality(set1 \cap set2), Cardinality(set1 \cup set2)>>
                           ELSE <<0, 1>>
             lines1     == NonBlankLines(c1)
             lines2     == NonBlankLines(c2)
             totalLines == Max(Len(lines1), Len(lines2))
             lineSim    == IF totalLines > 0
                           THEN <<MatchingLineCount(lines1, lines2), totalLines>>
                           ELSE <<0, 1>>
             num == 4 * stringSim[1] * jaccardSim[2] * lineSim[2]
                      + 3 * jaccardSim[1] * stringSim[2] * lineSim[2]
                      + 3 * lineSim[1] * stringSim[2] * jaccardSim[2]
             den == 10 * stringSim[2] * jaccardSim[2] * lineSim[2]
         IN  IF num > den THEN <<1, 1>> ELSE <<num, den>>

\* Math.round(x * scale) for a ratio x >= 0
RoundScaled(ratio, scale) == (2 * scale * ratio[1] + ratio[2]) \div (2 * ratio[2])

(***************************************************************************)
(* PlagiarismDetector: line evidence                                       *)
(***************************************************************************)
\* code.split('\n').map(line => line.trim()).filter(line => line)
TrimmedLines(code) == StrippedLines(SplitLines(code))

\* the cap passed by detectPlagiarism, also the default of the parameter maxMatches
MaxMatches == 20

\* variant of the loop condition without the cap: i < lines1.length
ScanContinuesUncapped(lines1, n, collected, maxMatches) == n <= Len(lines1)

\* the loop condition i < lines1.length && matches.length < maxMatches, for the line at
\* position n (counted from 1)
ScanContinues(lines1, n, collected, maxMatches) ==
    n <= Len(lines1) /\ Len(collected) < maxMatches

\* variant that searches for a similar line before it looks the line up
MatchLineSimilarFirst(lines1, lines2, n, collected) ==
    LET line1  == lines1[n]
        exact  == {m \in DOMAIN lines2 : lines2[m] = line1}
        fuzzy  == {m \in DOMAIN lines2 :
                      /\ Len(lines2[m]) > 10
                      /\ Exceeds(compareTwoStrings(line1, lines2[m]), 85, 100)}
        first(S) == CHOOSE m \in S : \A o \in S : m <= o
    IN  IF Len(line1) > 10 /\ fuzzy # {}
        THEN Append(collected,
                    [lineA |-> n, lineB |-> first(fuzzy), code |-> line1,
                     similarity |->
                         RoundScaled(compareTwoStrings(line1, lines2[first(fuzzy)]), 1000)])
        ELSE IF exact # {}
        THEN Append(collected, [lineA |-> n, lineB |-> first(exact),
                                code |-> line1, similarity |-> 1000])
        ELSE collected

\* variant of the similar-line search without the two length checks
MatchLineAnyLength(lines1, lines2, n, collected) ==
    LET line1  == lines1[n]
        exact  == {m \in DOMAIN lines2 : lines2[m] = line1}
        fuzzy  == {m \in DOMAIN lines2 :
                      Exceeds(compareTwoStrings(line1, lines2[m]), 85, 100)}
        first(S) == CHOOSE m \in S : \A o \in S : m <= o
    IN  IF exact # {}
        THEN Append(collected, [lineA |-> n, lineB |-> first(exact),
                                code |-> line1, similarity |-> 1000])
        ELSE IF fuzzy # {}
        THEN Append(collected,
                    [lineA |-> n, lineB |-> first(fuzzy), code |-> line1,
                     similarity |->
                         RoundScaled(compareTwoStrings(line1, lines2[first(fuzzy)]), 1000)])
        ELSE collected

\* one pass of the loop body for lines1[n]: the matches collected after it; similarity is
\* kept in tenths of a percent
MatchLine(lines1, lines2, n, collected) ==
    LET line1  == lines1[n]
        exact  == {m \in DOMAIN lines2 : lines2[m] = line1}
        fuzzy  == {m \in DOMAIN lines2 :
                      /\ Len(lines2[m]) > 10
                      /\ Exceeds(compareTwoStrings(line1, lines2[m]), 85, 100)}
        first(S) == CHOOSE m \in S : \A o \in S : m <= o
    IN  IF exact # {}
        THEN Append(collected, [lineA |-> n, lineB |-> first(exact),
                                code |-> line1, similarity |-> 1000])
        ELSE IF Len(line1) > 10 /\ fuzzy # {}
        THEN Append(collected,
                    [lineA |-> n, lineB |-> first(fuzzy), code |-> line1,
                     similarity |->
                         RoundScaled(compareTwoStrings(line1, lines2[first(fuzzy)]), 1000)])
        ELSE collected

\* the loop of findMatchingLines over lines1[n..], given the matches collected so far
RECURSIVE MatchLoop(_, _, _, _, _)
MatchLoop(lines1, lines2, n, collected, maxMatches) ==
    IF ~ScanContinues(lines1, n, collected, maxMatches) THEN collected
    ELSE MatchLoop(lines1, lines2, n + 1, MatchLine(lines1, lines2, n, collected),
                   maxMatches)

findMatchingLines(c1, c2, maxMatches) ==
    MatchLoop(TrimmedLines(c1), TrimmedLines(c2), 1, <<>>, maxMatches)

(***************************************************************************)
(* PlagiarismDetector.detectPlagiarism, step by step                       *)
(***************************************************************************)
\* variant without the empty-file check: every file is pushed to processedFiles
SkipsFileNever(normalizedCode) == FALSE

\* if (!normalizedCode.trim()) continue
SkipsFile(normalizedCode) == trim(normalizedCode) = <<>>

\* the entry pushed to processedFiles
ProcessedFile(fileData, rawCode, normalizedCode) ==
    [student_name    |-> fileData.student_name,
     student_id      |-> fileData.student_id,
     file_id         |-> fileData.file_id,
     raw_code        |-> rawCode,
     normalized_code |-> normalizedCode,
     upload_order    |-> fileData.upload_order,
     code_hash       |-> calculateCodeHash(normalizedCode)]

\* variant without the duplicate check: every pair goes through the weighted score
PairSimilarityNoShortcut(fileA, fileB) ==
    calculateSimilarity(fileA.normalized_code, fileB.normalized_code)

\* "Check for exact duplicates first": equal hashes give 1.0, else the weighted score
PairSimilarity(fileA, fileB) ==
    IF fileA.code_hash = fileB.code_hash
    THEN <<1, 1>>
    ELSE calculateSimilarity(fileA.normalized_code, fileB.normalized_code)

\* variant with a strict comparison: similarity > this.threshold
MeetsThresholdStrict(similarity, t) == similarity[1] * 100 > t * similarity[2]

\* variant with the comparison turned round: similarity <= this.threshold
MeetsThresholdReversed(similarity, t) == similarity[1] * 100 <= t * similarity[2]

\* similarity >= this.threshold, the threshold given in hundredths
MeetsThreshold(similarity, t) == similarity[1] * 100 >= t * similarity[2]

\* variant without the final division: Math.round(similarity * 100 * 100)
ReportedSimilarityUnscaled(similarity) == RoundScaled(similarity, 1000000)

\* Math.round(similarity * 100 * 100) / 100, in hundredths of a percent
ReportedSimilarity(similarity) == RoundScaled(similarity, 10000)

\* variant that calculates matching lines for every kept pair
HighSimilarityAlways(similarity) == TRUE

\* "Calculate matching lines for high similarity cases": similarity > 0.7
HighSimilarity(similarity) == Exceeds(similarity, 7, 10)

\* the record pushed to results for a kept pair
PairResult(fileA, fileB, similarity) ==
    LET matchingLines ==
            IF HighSimilarity(similarity)
            THEN findMatchingLines(fileA.normalized_code, fileB.normalized_code,
                                   MaxMatches)
            ELSE <<>>
    IN  [studentA       |-> fileA.student_name,
         studentA_id    |-> fileA.student_id,
         fileA_id       |-> fileA.file_id,
         studentB       |-> fileB.student_name,
         studentB_id    |-> fileB.student_id,
         fileB_id       |-> fileB.file_id,
         similarity     |-> ReportedSimilarity(similarity),
         matching_lines |-> matchingLines,
         total_matches  |-> Len(matchingLines)]

\* variant with the inner loop starting at the outer index: for (let j = i; ...)
FirstInnerSelf(outer) == outer

\* for (let j = i + 1; ...): where the inner loop starts, indices counted from 1
FirstInner(outer) == outer + 1

\* variant of an unstable sort: an element goes ahead of the elements it ties with
InsertSortedUnstable(sorted, r) ==
    LET ahead == {n \in DOMAIN sorted : sorted[n].similarity > r.similarity}
        pos   == IF ahead = {} THEN 0 ELSE CHOOSE n \in ahead : \A m \in ahead : m <= n
    IN  SubSeq(sorted, 1, pos) \o <<r>> \o SubSeq(sorted, pos + 1, Len(sorted))

\* results.sort((a, b) => b.similarity - a.similarity): Array.prototype.sort is stable, so
\* an element goes behind every element that does not compare after it
InsertSorted(sorted, r) ==
    LET ahead == {n \in DOMAIN sorted : sorted[n].similarity >= r.similarity}
        pos   == IF ahead = {} THEN 0 ELSE CHOOSE n \in ahead : \A m \in ahead : m <= n
    IN  SubSeq(sorted, 1, pos) \o <<r>> \o SubSeq(sorted, pos + 1, Len(sorted))

RECURSIVE SortResults(_)
SortResults(rs) ==
    IF rs = <<>> THEN <<>>
    ELSE InsertSorted(SortResults(SubSeq(rs, 1, Len(rs) - 1)), rs[Len(rs)])

(***************************************************************************)
(* PlagiarismDetector.detectPlagiarism as a function of its input          *)
(***************************************************************************)
\* one pass of the extraction loop: what a descriptor adds to processedFiles, given the
\* notebooks found on disk
ProcessOne(fileData, contents, normVars) ==
    LET rawCode        == extractCodeFromNotebook(contents[fileData.file_path])
        normalizedCode == normalizeCode(rawCode, normVars)
    IN  IF SkipsFile(normalizedCode)
        THEN <<>>
        ELSE <<ProcessedFile(fileData, rawCode, normalizedCode)>>

\* the passes for fds[lo..hi], in order (the range is halved to keep the evaluation flat)
RECURSIVE ProcessRange(_, _, _, _, _)
ProcessRange(fds, contents, normVars, lo, hi) ==
    IF lo > hi THEN <<>>
    ELSE IF lo = hi THEN ProcessOne(fds[lo], contents, normVars)
    ELSE LET mid == (lo + hi) \div 2
         IN  ProcessRange(fds, contents, normVars, lo, mid)
                 \o ProcessRange(fds, contents, normVars, mid + 1, hi)

\* "Step 1": the extraction loop over fds[n..]
ProcessAll(fds, contents, normVars, n) == ProcessRange(fds, contents, normVars, n, Len(fds))

\* "Step 2": the pair loop from position (a, b) on
RECURSIVE CompareAll(_, _, _, _)
CompareAll(pfs, t, a, b) ==
    IF a > Len(pfs) THEN <<>>
    ELSE IF b > Len(pfs) THEN CompareAll(pfs, t, a + 1, FirstInner(a + 1))
    ELSE LET similarity == PairSimilarity(pfs[a], pfs[b])
         IN  (IF MeetsThreshold(similarity, t)
              THEN <<PairResult(pfs[a], pfs[b], similarity)>>
              ELSE <<>>) \o CompareAll(pfs, t, a, b + 1)

detectPlagiarism(fds, contents, normVars, t) ==
    IF Len(fds) < 2 THEN <<>>
    ELSE LET pfs == ProcessAll(fds, contents, normVars, 1)
         IN  IF Len(pfs) < 2 THEN <<>>
             ELSE SortResults(CompareAll(pfs, t, 1, FirstInner(1)))

(***************************************************************************)
(* Inputs of the model                                                     *)
(***************************************************************************)
MaxFiles == 3

MaxLines == 2

\* request thresholds in hundredths (50 is also the default of the handler and of the
\* constructor): 0 and 150 lie outside (0,1]
Thresholds == {0, 50, 100, 150}

Notebook(cells) == [readable |-> TRUE, json |-> "object", cells |-> "list", list |-> cells]

CodeCell(isArray, parts) ==
    [cell_type |-> "code", source |-> [array |-> isArray, parts |-> parts]]

MarkdownCell(text) ==
    [cell_type |-> "markdown", source |-> [array |-> FALSE, parts |-> <<text>>]]

\* "# n\n" "x=1\n" "print(x)" as a source array
CommentedX ==
    Notebook(<<CodeCell(TRUE, << <<"#"," ","n",NL>>, <<"x","=","1",NL>>,
                                 <<"p","r","i","n","t","(","x",")">> >>)>>)

\* a markdown cell, then "y=1\nprint(y)" as a source string
RenamedY ==
    Notebook(<<MarkdownCell(<<"x","=","1">>),
               CodeCell(FALSE, << <<"y","=","1",NL,"p","r","i","n","t","(","y",")">> >>)>>)

\* two code cells, "  x=1" and "x=1"
RepeatedX ==
    Notebook(<<CodeCell(FALSE, << <<" "," ","x","=","1">> >>),
               CodeCell(FALSE, << <<"x","=","1">> >>)>>)

\* "()": code without any word token
NoTokens == Notebook(<<CodeCell(FALSE, << <<"(",")">> >>)>>)

\* "# n": nothing is left after normalization
OnlyComment == Notebook(<<CodeCell(FALSE, << <<"#"," ","n">> >>)>>)

Unreadable == [readable |-> FALSE, json |-> "object", cells |-> "list", list |-> <<>>]

MalformedJson == [readable |-> TRUE, json |-> "malformed", cells |-> "list", list |-> <<>>]

MalformedCells == [readable |-> TRUE, json |-> "object", cells |-> "malformed", list |-> <<>>]

Failing == {Unreadable, MalformedJson, MalformedCells}

FilePool == {CommentedX, RenamedY, RepeatedX, NoTokens, OnlyComment} \cup Failing

\* lines of normalized code
LinePool == { <<"v","a","r","0","=","1">>, <<"v","a","r","1","=","2","2">>,
              <<"p","r","i","n","t","(","v","a","r","0",")">>, <<"(",")">> }

NormTexts ==
    {Join(ls, <<NL>>) : ls \in UNION {[1..n -> LinePool] : n \in 1..MaxLines}}

(***************************************************************************)
(* POST /api/analyze                                                       *)
(***************************************************************************)
\* find({}).limit(300)
FindLimit == 300

\* files.slice(0, 100)
AnalyzeLimit == 100

NoResponse == [status |-> 0, detail |-> "", body |-> <<>>]

NoRecord == [id |-> 0, analysis_timestamp |-> 0, threshold |-> 0, results |-> <<>>,
             total_files |-> 0, total_matches |-> 0]

\* a document of the files collection, as the upload routes store it
FileRecord(n) ==
    [id |-> n, student_name |-> n, student_id |-> n, file_path |-> n, upload_order |-> n]

\* the descriptor the handler maps a stored file to
FileData(f) ==
    [file_id |-> f.id, student_name |-> f.student_name, student_id |-> f.student_id,
     file_path |-> f.file_path, upload_order |-> f.upload_order]

ScorerIdle ==
    /\ code1 = <<>>
    /\ code2 = <<>>
    /\ scoreAB = -1
    /\ scoreBA = -1

\* marks a text that has not been computed yet
Unset == <<"unset">>

ServerIdle ==
    /\ reqs = <<>>
    /\ nextUuid = 0

RunsIdle ==
    /\ served = 0
    /\ lineMatched = {}

RegisterIdle ==
    /\ admins = <<>>
    /\ regs = <<>>

ExtractorIdle ==
    /\ notebook = Unreadable
    /\ cellAt = 0
    /\ codeCells = <<>>
    /\ extracted = Unset

MatcherIdle ==
    /\ linesA = <<>>
    /\ linesB = <<>>
    /\ scanned = 0
    /\ matches = <<>>

NormalizerIdle ==
    /\ rawA = <<>>
    /\ rawB = <<>>
    /\ normA = Unset
    /\ normB = Unset
    /\ renormA = Unset
    /\ renormB = Unset

Init ==
    /\ \E n \in 0..MaxFiles :
        /\ files = [m \in 1..n |-> FileRecord(m)]
        /\ disk \in [1..n -> FilePool]
    /\ analysis_results = <<>>
    /\ pc = "idle"
    /\ threshold = 0
    /\ normalizeVars = TRUE
    /\ filesData = <<>>
    /\ processedFiles = <<>>
    /\ k = 0
    /\ i = 0
    /\ j = 0
    /\ results = <<>>
    /\ res = NoResponse
    /\ fileReads = {}
    /\ pairsScored = 0
    /\ clock = 0
    /\ analysisResult = NoRecord
    /\ ScorerIdle
    /\ NormalizerIdle
    /\ MatcherIdle
    /\ ServerIdle
    /\ RunsIdle
    /\ ExtractorIdle
    /\ RegisterIdle

\* find({}).toArray() rejects: the catch clause answers 500 before anything is computed
FindFails ==
    /\ pc = "idle"
    /\ res' = [status |-> 500, detail |-> "Analysis failed", body |-> <<>>]
    /\ pc' = "done"
    /\ UNCHANGED <<files, analysis_results, threshold, normalizeVars, filesData,
                   processedFiles, k, i, j, results, fileReads, pairsScored, clock, disk,
                   analysisResult, harnessVars>>

\* the handler up to the call of detectPlagiarism, and detectPlagiarism's first check
AnalyzeRequest(t) ==
    /\ pc = "idle"
    /\ threshold' = t
    /\ LET found          == SubSeq(files, 1, Min(Len(files), FindLimit))
           filesToAnalyze == SubSeq(found, 1, Min(Len(found), AnalyzeLimit))
       IN  IF Len(found) < 2
           THEN /\ res' = [status |-> 400,
                           detail |-> "At least 2 files are required for analysis",
                           body   |-> <<>>]
                /\ pc' = "done"
                /\ UNCHANGED <<filesData, normalizeVars, results, k>>
           ELSE /\ filesData' = [n \in DOMAIN filesToAnalyze |-> FileData(filesToAnalyze[n])]
                /\ normalizeVars' = TRUE
                /\ res' = res
                /\ IF Len(filesToAnalyze) < 2
                   THEN results' = <<>> /\ pc' = "returned" /\ k' = k
                   ELSE results' = results /\ pc' = "extract" /\ k' = 1
    /\ processedFiles' = <<>>
    /\ UNCHANGED <<files, analysis_results, i, j, fileReads, pairsScored, clock, disk,
                   analysisResult, harnessVars>>

\* one pass of the extraction loop: read, extract, normalize, keep or skip
ExtractFile ==
    /\ pc = "extract"
    /\ k <= Len(filesData)
    /\ LET fileData       == filesData[k]
           rawCode        == extractCodeFromNotebook(disk[fileData.file_path])
           normalizedCode == normalizeCode(rawCode, normalizeVars)
       IN  /\ fileReads' = fileReads \cup {fileData.file_id}
           /\ processedFiles' =
                  IF SkipsFile(normalizedCode)
                  THEN processedFiles
                  ELSE Append(processedFiles, ProcessedFile(fileData, rawCode, normalizedCode))
    /\ k' = k + 1
    /\ UNCHANGED <<files, analysis_results, pc, threshold, normalizeVars, filesData, i, j,
                   results, res, pairsScored, clock, disk, analysisResult, harnessVars>>

\* variant that leaves the extraction loop as soon as two files have been gone through
ExtractDoneEarly ==
    /\ pc = "extract"
    /\ k > Min(Len(filesData), 2)
    /\ results' = <<>>
    /\ IF Len(processedFiles) < 2
       THEN pc' = "returned" /\ UNCHANGED <<i, j>>
       ELSE pc' = "compare" /\ i' = 1 /\ j' = FirstInner(1)
    /\ UNCHANGED <<files, analysis_results, threshold, normalizeVars, filesData,
                   processedFiles, k, res, fileReads, pairsScored, clock, disk,
                   analysisResult, harnessVars>>

\* variant with results kept on the detector between calls instead of a fresh const
ExtractDoneKeepsResults ==
    /\ pc = "extract"
    /\ k > Len(filesData)
    /\ results' = results
    /\ IF Len(processedFiles) < 2
       THEN pc' = "returned" /\ UNCHANGED <<i, j>>
       ELSE pc' = "compare" /\ i' = 1 /\ j' = FirstInner(1)
    /\ UNCHANGED <<files, analysis_results, threshold, normalizeVars, filesData,
                   processedFiles, k, res, fileReads, pairsScored, clock, disk,
                   analysisResult, harnessVars>>

\* after the extraction loop: too few processed files return [], else the pair loop starts
ExtractDone ==
    /\ pc = "extract"
    /\ k > Len(filesData)
    /\ results' = <<>>
    /\ IF Len(processedFiles) < 2
       THEN pc' = "returned" /\ UNCHANGED <<i, j>>
       ELSE pc' = "compare" /\ i' = 1 /\ j' = FirstInner(1)
    /\ UNCHANGED <<files, analysis_results, threshold, normalizeVars, filesData,
                   processedFiles, k, res, fileReads, pairsScored, clock, disk,
                   analysisResult, harnessVars>>

\* variant of the inner loop header without j++: the same pair is scored again
ComparePairAgain ==
    /\ pc = "compare"
    /\ LET fileA      == processedFiles[i]
           fileB      == processedFiles[j]
           similarity == PairSimilarity(fileA, fileB)
       IN  /\ results' = IF MeetsThreshold(similarity, threshold)
                         THEN Append(results, PairResult(fileA, fileB, similarity))
                         ELSE results
           /\ lineMatched' =
                  IF MeetsThreshold(similarity, threshold) /\ HighSimilarity(similarity)
                  THEN lineMatched \cup {<<fileA.file_id, fileB.file_id>>}
                  ELSE lineMatched
    /\ pairsScored' = pairsScored + 1
    /\ UNCHANGED <<i, j, pc>>
    /\ UNCHANGED <<files, analysis_results, threshold, normalizeVars, filesData,
                   processedFiles, k, res, fileReads, clock, disk, analysisResult,
                   scorerVars, normalizerVars, matcherVars, serverVars, served,
                   extractorVars, registerVars>>

\* one pass of the inner loop body, and the loop headers that follow it
ComparePair ==
    /\ pc = "compare"
    /\ LET fileA      == processedFiles[i]
           fileB      == processedFiles[j]
           similarity == PairSimilarity(fileA, fileB)
       IN  /\ results' = IF MeetsThreshold(similarity, threshold)
                         THEN Append(results, PairResult(fileA, fileB, similarity))
                         ELSE results
           /\ lineMatched' =
                  IF MeetsThreshold(similarity, threshold) /\ HighSimilarity(similarity)
                  THEN lineMatched \cup {<<fileA.file_id, fileB.file_id>>}
                  ELSE lineMatched
    /\ pairsScored' = pairsScored + 1
    /\ IF j < Len(processedFiles)
       THEN i' = i /\ j' = j + 1 /\ pc' = pc
       ELSE IF i + 1 <= Len(processedFiles) /\ FirstInner(i + 1) <= Len(processedFiles)
            THEN i' = i + 1 /\ j' = FirstInner(i + 1) /\ pc' = pc
            ELSE i' = i /\ j' = j /\ pc' = "sort"
    /\ UNCHANGED <<files, analysis_results, threshold, normalizeVars, filesData,
                   processedFiles, k, res, fileReads, clock, disk, analysisResult,
                   scorerVars, normalizerVars, matcherVars, serverVars, served,
                   extractorVars, registerVars>>

\* results.sort(...); return results
SortAndReturn ==
    /\ pc = "sort"
    /\ results' = SortResults(results)
    /\ pc' = "returned"
    /\ UNCHANGED <<files, analysis_results, threshold, normalizeVars, filesData,
                   processedFiles, k, i, j, res, fileReads, pairsScored, clock, disk,
                   analysisResult, harnessVars>>

\* detectPlagiarism rejects in the pair loop or in the sort (the part outside the per-file
\* try/catch): its frame is dropped, results is never bound, the catch clause answers 500
DetectFails ==
    /\ pc \in {"compare", "sort"}
    /\ processedFiles' = <<>>
    /\ results' = <<>>
    /\ k' = 0
    /\ i' = 0
    /\ j' = 0
    /\ res' = [status |-> 500, detail |-> "Analysis failed", body |-> <<>>]
    /\ pc' = "done"
    /\ UNCHANGED <<files, analysis_results, threshold, normalizeVars, filesData, fileReads,
                   pairsScored, clock, disk, analysisResult, harnessVars>>

\* "Create analysis result"
BuildResult ==
    /\ pc = "returned"
    /\ clock' = clock + 1
    /\ analysisResult' =
           [id                 |-> Len(analysis_results) + 1,
            analysis_timestamp |-> clock + 1,
            threshold          |-> threshold,
            results            |-> results,
            total_files        |-> Len(filesData),
            total_matches      |-> Len(results)]
    /\ pc' = "insert"
    /\ UNCHANGED <<files, analysis_results, threshold, normalizeVars, filesData,
                   processedFiles, k, i, j, results, res, fileReads, pairsScored, disk,
                   harnessVars>>

\* await db.collection('analysis_results').insertOne(analysisResult)
InsertResult ==
    /\ pc = "insert"
    /\ analysis_results' = Append(analysis_results, analysisResult)
    /\ pc' = "respond"
    /\ UNCHANGED <<files, threshold, normalizeVars, filesData, processedFiles, k, i, j,
                   results, res, fileReads, pairsScored, clock, disk, analysisResult,
                   harnessVars>>

\* variant of a failing insert that has stored the record all the same
InsertFailsStored ==
    /\ pc = "insert"
    /\ analysis_results' = Append(analysis_results, analysisResult)
    /\ res' = [status |-> 500, detail |-> "Analysis failed", body |-> <<>>]
    /\ pc' = "done"
    /\ UNCHANGED <<files, threshold, normalizeVars, filesData, processedFiles, k, i, j,
                   results, fileReads, pairsScored, clock, disk, analysisResult,
                   harnessVars>>

\* insertOne rejects: the catch clause answers 500
InsertFails ==
    /\ pc = "insert"
    /\ res' = [status |-> 500, detail |-> "Analysis failed", body |-> <<>>]
    /\ pc' = "done"
    /\ UNCHANGED <<files, analysis_results, threshold, normalizeVars, filesData,
                   processedFiles, k, i, j, results, fileReads, pairsScored, clock, disk,
                   analysisResult, harnessVars>>

\* res.json(analysisResult)
Respond ==
    /\ pc = "respond"
    /\ res' = [status |-> 200, detail |-> "", body |-> <<analysisResult>>]
    /\ pc' = "done"
    /\ UNCHANGED <<files, analysis_results, threshold, normalizeVars, filesData,
                   processedFiles, k, i, j, results, fileReads, pairsScored, clock, disk,
                   analysisResult, harnessVars>>

Next ==
    \/ FindFails
    \/ \E t \in Thresholds : AnalyzeRequest(t)
    \/ ExtractFile
    \/ ExtractDone
    \/ ComparePair
    \/ SortAndReturn
    \/ DetectFails
    \/ BuildResult
    \/ InsertResult
    \/ InsertFails
    \/ Respond

Spec == Init /\ [][Next]_vars

(***************************************************************************)
(* POST /api/analyze, several requests one after the other                 *)
(***************************************************************************)
\* analyze requests in one behaviour
MaxRuns == 2

\* notebooks of the stored files: two that differ and one that is skipped as empty
RunPool == {CommentedX, RepeatedX, OnlyComment}

RunsInit ==
    /\ \E n \in 2..MaxFiles :
        /\ files = [m \in 1..n |-> FileRecord(m)]
        /\ disk \in [1..n -> RunPool]
    /\ analysis_results = <<>>
    /\ pc = "idle"
    /\ threshold = 0
    /\ normalizeVars = TRUE
    /\ filesData = <<>>
    /\ processedFiles = <<>>
    /\ k = 0
    /\ i = 0
    /\ j = 0
    /\ results = <<>>
    /\ res = NoResponse
    /\ fileReads = {}
    /\ pairsScored = 0
    /\ clock = 0
    /\ analysisResult = NoRecord
    /\ ScorerIdle
    /\ NormalizerIdle
    /\ MatcherIdle
    /\ ServerIdle
    /\ RunsIdle
    /\ ExtractorIdle
    /\ RegisterIdle

\* the route is called again for the next request; whatever the run before has left in
\* the handler and in the detector is still there
NextRequest ==
    /\ pc = "done"
    /\ served + 1 < MaxRuns
    /\ served' = served + 1
    /\ pc' = "idle"
    /\ res' = NoResponse
    /\ UNCHANGED <<files, analysis_results, threshold, normalizeVars, filesData,
                   processedFiles, k, i, j, results, fileReads, pairsScored, clock, disk,
                   analysisResult, scorerVars, normalizerVars, matcherVars, serverVars,
                   lineMatched, extractorVars, registerVars>>

RunsNext == Next \/ NextRequest

SpecRuns == RunsInit /\ [][RunsNext]_vars

(***************************************************************************)
(* The scorer applied to a pair of normalized texts, in both orders        *)
(***************************************************************************)
\* the score detectPlagiarism reports for fileA = a, fileB = b
Score(a, b) ==
    ReportedSimilarity(
        PairSimilarity([normalized_code |-> a, code_hash |-> calculateCodeHash(a)],
                       [normalized_code |-> b, code_hash |-> calculateCodeHash(b)]))

ScorerInit ==
    /\ code1 \in NormTexts
    /\ code2 \in NormTexts
    /\ scoreAB = -1
    /\ scoreBA = -1
    /\ files = <<>>
    /\ disk = <<>>
    /\ analysis_results = <<>>
    /\ pc = "scorer"
    /\ threshold = 0
    /\ normalizeVars = TRUE
    /\ filesData = <<>>
    /\ processedFiles = <<>>
    /\ k = 0
    /\ i = 0
    /\ j = 0
    /\ results = <<>>
    /\ res = NoResponse
    /\ fileReads = {}
    /\ pairsScored = 0
    /\ clock = 0
    /\ analysisResult = NoRecord
    /\ NormalizerIdle
    /\ MatcherIdle
    /\ ServerIdle
    /\ RunsIdle
    /\ ExtractorIdle
    /\ RegisterIdle

ScoreForward ==
    /\ pc = "scorer"
    /\ scoreAB = -1
    /\ scoreAB' = Score(code1, code2)
    /\ UNCHANGED <<code1, code2, scoreBA, analyzerVars, normalizerVars, matcherVars,
                   serverVars, runVars, extractorVars, registerVars>>

ScoreBackward ==
    /\ pc = "scorer"
    /\ scoreBA = -1
    /\ scoreBA' = Score(code2, code1)
    /\ UNCHANGED <<code1, code2, scoreAB, analyzerVars, normalizerVars, matcherVars,
                   serverVars, runVars, extractorVars, registerVars>>

ScorerNext == ScoreForward \/ ScoreBackward

SpecScorer == ScorerInit /\ [][ScorerNext]_vars

(***************************************************************************)
(* CodeNormalizer applied to raw code, once and twice, and to two          *)
(* submissions that are one program written in two ways                    *)
(***************************************************************************)
\* a token of a program: an identifier slot (id > 0) or literal text (id = 0)
Ident(n) == [id |-> n, text |-> <<>>]

Lit(text) == [id |-> 0, text |-> text]

\* <id1>=1 / print(<id1>): the program of "x=1\nprint(x)"
AssignAndPrint ==
    << <<Ident(1), Lit(<<"=">>), Lit(<<"1">>)>>,
       <<Lit(<<"p","r","i","n","t">>), Lit(<<"(">>), Ident(1), Lit(<<")">>)>> >>

\* <id1>=<id2> / print(<id1>): a program of two identifiers
CopyAndPrint ==
    << <<Ident(1), Lit(<<"=">>), Ident(2)>>,
       <<Lit(<<"p","r","i","n","t">>), Lit(<<"(">>), Ident(1), Lit(<<")">>)>> >>

Programs == {AssignAndPrint, CopyAndPrint}

\* spellings of identifiers, two of them of the form var<k>
NamePool == {<<"x">>, <<"y">>, <<"v","a","r","0">>, <<"v","a","r","1">>}

\* a spelling gives each identifier slot its own name
Spellings == {sp \in [1..2 -> NamePool] : sp[1] # sp[2]}

\* a layout: indentation of the lines, blanks between tokens, comments, blank lines
Layouts ==
    [indent : {<<>>, <<" "," ">>}, gap : {<<>>, <<" ">>}, comments : {"none", "hash", "doc"}]

PlainLayout == [indent |-> <<>>, gap |-> <<>>, comments |-> "none"]

RECURSIVE RenderTokens(_, _, _)
RenderTokens(line, sp, gap) ==
    IF line = <<>> THEN <<>>
    ELSE (IF line[1].id = 0 THEN line[1].text ELSE sp[line[1].id])
             \o (IF Len(line) > 1 THEN gap ELSE <<>>)
             \o RenderTokens(Tail(line), sp, gap)

RECURSIVE RenderLines(_, _, _)
RenderLines(prog, sp, layout) ==
    IF prog = <<>> THEN <<>>
    ELSE <<layout.indent \o RenderTokens(prog[1], sp, layout.gap)
               \o (IF layout.comments = "hash" THEN <<" "," ","#"," ","t">> ELSE <<>>)>>
             \o (IF layout.comments = "none" THEN <<>> ELSE << <<>> >>)
             \o RenderLines(Tail(prog), sp, layout)

\* the source text of a program under a spelling and a layout
Render(prog, sp, layout) ==
    Join((IF layout.comments = "hash" THEN << <<"#"," ","n","o","t","e">> >>
          ELSE IF layout.comments = "doc" THEN << <<"\"","\"","\"","d","o","c","\"","\"","\"">> >>
          ELSE <<>>) \o RenderLines(prog, sp, layout), <<NL>>)

\* texts that mix the two triple-quote delimiters, and a comment sign inside a docstring
QuotedTexts == {
    <<"\"","\"","\"","y","\"","\"","'","'","'","'","'","'","\"">>,
    <<"'","'","'","a","\"","\"","\"","b","'","'","'","c","\"","\"","\"">>,
    <<"\"","\"","\"","a"," ","#"," ","b","\"","\"","\"",NL,"x","=","1">>,
    <<"x","=","1"," ","'","'","'","a",NL,"\"","\"","\"","b","'","'","'"," ","c","\"","\"","\"">> }

NormalizerInit ==
    /\ normalizeVars \in BOOLEAN
    /\ \/ \E prog \in Programs : \E sp1 \in Spellings : \E sp2 \in Spellings :
          \E layout \in Layouts :
              /\ rawA = Render(prog, sp1, PlainLayout)
              /\ rawB = Render(prog, sp2, layout)
       \/ /\ rawA \in QuotedTexts
          /\ rawB = rawA
    /\ normA = Unset
    /\ normB = Unset
    /\ renormA = Unset
    /\ renormB = Unset
    /\ ScorerIdle
    /\ MatcherIdle
    /\ ServerIdle
    /\ RunsIdle
    /\ ExtractorIdle
    /\ RegisterIdle
    /\ files = <<>>
    /\ disk = <<>>
    /\ analysis_results = <<>>
    /\ pc = "normalizer"
    /\ threshold = 0
    /\ filesData = <<>>
    /\ processedFiles = <<>>
    /\ k = 0
    /\ i = 0
    /\ j = 0
    /\ results = <<>>
    /\ res = NoResponse
    /\ fileReads = {}
    /\ pairsScored = 0
    /\ clock = 0
    /\ analysisResult = NoRecord

NormalizeA ==
    /\ pc = "normalizer"
    /\ normA = Unset
    /\ normA' = normalizeCode(rawA, normalizeVars)
    /\ UNCHANGED <<rawA, rawB, normB, renormA, renormB, analyzerVars, scorerVars, matcherVars,
                   serverVars, runVars, extractorVars, registerVars>>

NormalizeB ==
    /\ pc = "normalizer"
    /\ normB = Unset
    /\ normB' = normalizeCode(rawB, normalizeVars)
    /\ UNCHANGED <<rawA, rawB, normA, renormA, renormB, analyzerVars, scorerVars, matcherVars,
                   serverVars, runVars, extractorVars, registerVars>>

RenormalizeA ==
    /\ pc = "normalizer"
    /\ normA # Unset
    /\ renormA = Unset
    /\ renormA' = normalizeCode(normA, normalizeVars)
    /\ UNCHANGED <<rawA, rawB, normA, normB, renormB, analyzerVars, scorerVars, matcherVars,
                   serverVars, runVars, extractorVars, registerVars>>

RenormalizeB ==
    /\ pc = "normalizer"
    /\ normB # Unset
    /\ renormB = Unset
    /\ renormB' = normalizeCode(normB, normalizeVars)
    /\ UNCHANGED <<rawA, rawB, normA, normB, renormA, analyzerVars, scorerVars, matcherVars,
                   serverVars, runVars, extractorVars, registerVars>>

NormalizerNext == NormalizeA \/ NormalizeB \/ RenormalizeA \/ RenormalizeB

SpecNormalizer == NormalizerInit /\ [][NormalizerNext]_vars

(***************************************************************************)
(* PlagiarismDetector.findMatchingLines, line by line                      *)
(***************************************************************************)
\* longest run of one repeated line in the first text
MaxRun == 11

\* longest run of other lines between the two runs
MaxGap == 2

RECURSIVE Repeated(_, _)
Repeated(line, n) == IF n = 0 THEN <<>> ELSE <<line>> \o Repeated(line, n - 1)

\* the repeated line: a short one and one long enough for the similar-line search
RunLines == {<<"v","a","r","0","=","1">>, <<"p","r","i","n","t","(","v","a","r","0","+","v","a","r","1",")">>}

\* the line between the runs, which only some second texts hold
GapLine == <<"v","a","r","1","=","2","2">>

\* a line close to the long one of RunLines
NearLine == <<"p","r","i","n","t","(","v","a","r","0","+","v","a","r","2",")">>

\* the line with a blank put in behind its fourth character
Spaced(line) == SubSeq(line, 1, 4) \o <<" ">> \o SubSeq(line, 5, Len(line))

\* the second texts for a repeated line: the line alone, the line behind the gap line,
\* a text without either, a line close to the long one, that line before the line
\* itself, the line twice, and the line with a blank in it behind the gap line
Targets(line) ==
    {line, GapLine \o <<NL>> \o line, <<"(",")">>, NearLine,
     NearLine \o <<NL>> \o line, GapLine \o <<NL>> \o line \o <<NL>> \o line,
     GapLine \o <<NL>> \o Spaced(line)}

\* two lines of 64 and 65 characters that share their first 55: 54 common bigrams of
\* 63 and 64, a similarity of 108/127
LongLineA == Repeated("a", 55) \o Repeated("b", 9)

LongLineB == Repeated("a", 55) \o Repeated("c", 10)

MatcherInit ==
    /\ \/ \E line \in RunLines : \E p \in 0..MaxRun : \E q \in 0..MaxGap : \E r \in 0..MaxRun :
              /\ code1 = Join(Repeated(line, p) \o Repeated(GapLine, q) \o Repeated(line, r),
                              <<NL>>)
              /\ code2 \in Targets(line)
       \/ \* 50 identical lines on both sides
          /\ code1 = Join(Repeated(<<"v","a","r","0","=","1">>, 50), <<NL>>)
          /\ code2 = code1
       \/ \* two long lines just above the similarity limit, behind q other lines
          \E q \in 0..MaxGap :
              /\ code1 = LongLineA
              /\ code2 = Join(Repeated(GapLine, q) \o <<LongLineB>>, <<NL>>)
    /\ scoreAB = -1
    /\ scoreBA = -1
    /\ linesA = <<>>
    /\ linesB = <<>>
    /\ scanned = 0
    /\ matches = <<>>
    /\ NormalizerIdle
    /\ ServerIdle
    /\ RunsIdle
    /\ ExtractorIdle
    /\ RegisterIdle
    /\ files = <<>>
    /\ disk = <<>>
    /\ analysis_results = <<>>
    /\ pc = "matcher"
    /\ threshold = 0
    /\ normalizeVars = TRUE
    /\ filesData = <<>>
    /\ processedFiles = <<>>
    /\ k = 0
    /\ i = 0
    /\ j = 0
    /\ results = <<>>
    /\ res = NoResponse
    /\ fileReads = {}
    /\ pairsScored = 0
    /\ clock = 0
    /\ analysisResult = NoRecord

\* the head of findMatchingLines: both texts are split into trimmed, non-empty lines
SplitBoth ==
    /\ pc = "matcher"
    /\ linesA' = TrimmedLines(code1)
    /\ linesB' = TrimmedLines(code2)
    /\ scanned' = 0
    /\ matches' = <<>>
    /\ pc' = "scan"
    /\ UNCHANGED <<files, analysis_results, threshold, normalizeVars, filesData,
                   processedFiles, k, i, j, results, res, fileReads, pairsScored, clock,
                   disk, analysisResult, scorerVars, normalizerVars, serverVars, runVars,
                   extractorVars, registerVars>>

\* one pass of the loop: the next line of code1 is looked up in code2
ScanLine ==
    /\ pc = "scan"
    /\ ScanContinues(linesA, scanned + 1, matches, MaxMatches)
    /\ matches' = MatchLine(linesA, linesB, scanned + 1, matches)
    /\ scanned' = scanned + 1
    /\ UNCHANGED <<linesA, linesB, analyzerVars, scorerVars, normalizerVars, serverVars,
                   runVars, extractorVars, registerVars>>

\* the loop condition fails: return matches
ScanReturn ==
    /\ pc = "scan"
    /\ ~ScanContinues(linesA, scanned + 1, matches, MaxMatches)
    /\ pc' = "matched"
    /\ UNCHANGED <<files, analysis_results, threshold, normalizeVars, filesData,
                   processedFiles, k, i, j, results, res, fileReads, pairsScored, clock,
                   disk, analysisResult, scorerVars, normalizerVars, matcherVars,
                   serverVars, runVars, extractorVars, registerVars>>

MatcherNext == SplitBoth \/ ScanLine \/ ScanReturn

SpecMatcher == MatcherInit /\ [][MatcherNext]_vars

(***************************************************************************)
(* A run and a call of findMatchingLines, with the steps that are bound to *)
(* be taken                                                                *)
(***************************************************************************)
\* an analyze request over two or more stored files, or a call of findMatchingLines
TerminationInit == RunsInit \/ MatcherInit

\* where the handler, the detector and findMatchingLines stand
position == <<pc, k, i, j, scanned>>

\* the positions of a run that has begun and of a call of findMatchingLines
RunPositions == {"extract", "compare", "sort", "returned", "insert", "respond"}

MatchPositions == {"matcher", "scan"}

\* a run that has begun moves on: every await of the handler and of the detector settles
\* (a file read returns or fails inside the extraction pass, insertOne resolves or
\* rejects) and synchronous code runs to its next position
RunAdvances ==
    /\ pc \in RunPositions
    /\ pc' \in RunPositions \cup {"done"}
    /\ k' \in {k, k + 1}
    /\ i' \in {0, 1, i, i + 1}
    /\ j' \in 0..(Len(processedFiles) + 1)
    /\ scanned' = scanned

\* findMatchingLines is synchronous code: once called it moves on
MatchAdvances ==
    /\ pc \in MatchPositions
    /\ pc' \in {"scan", "matched"}
    /\ scanned' \in {0, scanned, scanned + 1}
    /\ UNCHANGED <<k, i, j>>

TerminationNext == Next \/ MatcherNext

SpecTermination ==
    /\ TerminationInit
    /\ [][TerminationNext]_vars
    /\ WF_position(RunAdvances)
    /\ WF_position(MatchAdvances)

(***************************************************************************)
(* NotebookParser.extractCodeFromNotebook, cell by cell                    *)
(***************************************************************************)
\* most cells of a notebook
MaxCells == 3

\* cells: code with a string source, code with a list source, code with the empty string
\* as source, code with the empty list as source, a markdown cell and a raw cell
CellPool ==
    { CodeCell(FALSE, << <<"x","=","1">> >>),
      CodeCell(TRUE, << <<"y","=","2",NL>>, <<"p","r","i","n","t","(","y",")">> >>),
      CodeCell(FALSE, << <<>> >>),
      CodeCell(TRUE, <<>>),
      MarkdownCell(<<"x","=","1">>),
      [cell_type |-> "raw", source |-> [array |-> FALSE, parts |-> << <<"z">> >>]] }

\* a JSON object without the key cells
NoCells == [readable |-> TRUE, json |-> "object", cells |-> "missing", list |-> <<>>]

Notebooks ==
    {Notebook(cells) : cells \in UNION {[1..n -> CellPool] : n \in 0..MaxCells}}
        \cup Failing \cup {NoCells}

ExtractorInit ==
    /\ notebook \in Notebooks
    /\ cellAt = 0
    /\ codeCells = <<>>
    /\ extracted = Unset
    /\ pc = "extractor"
    /\ RegisterIdle
    /\ ScorerIdle
    /\ NormalizerIdle
    /\ MatcherIdle
    /\ ServerIdle
    /\ RunsIdle
    /\ files = <<>>
    /\ disk = <<>>
    /\ analysis_results = <<>>
    /\ threshold = 0
    /\ normalizeVars = TRUE
    /\ filesData = <<>>
    /\ processedFiles = <<>>
    /\ k = 0
    /\ i = 0
    /\ j = 0
    /\ results = <<>>
    /\ res = NoResponse
    /\ fileReads = {}
    /\ pairsScored = 0
    /\ clock = 0
    /\ analysisResult = NoRecord

outsideExtractor ==
    <<files, analysis_results, threshold, normalizeVars, filesData, processedFiles, k, i,
      j, results, res, fileReads, pairsScored, clock, disk, analysisResult, scorerVars,
      normalizerVars, matcherVars, serverVars, runVars, registerVars>>

\* fs.readFile, JSON.parse or the walk over notebook.cells throws: catch, return ''
ReadFails ==
    /\ pc = "extractor"
    /\ \/ ~notebook.readable
       \/ notebook.json # "object"
       \/ notebook.cells = "malformed"
    /\ extracted' = <<>>
    /\ pc' = "extracted"
    /\ UNCHANGED <<notebook, cellAt, codeCells, outsideExtractor>>

\* the file is read and parsed; const codeCells = []; if (notebook.cells) starts the loop
ReadNotebook ==
    /\ pc = "extractor"
    /\ notebook.readable
    /\ notebook.json = "object"
    /\ notebook.cells \in {"list", "missing"}
    /\ codeCells' = <<>>
    /\ cellAt' = 1
    /\ pc' = "cells"
    /\ UNCHANGED <<notebook, extracted, outsideExtractor>>

\* one pass of the loop over notebook.cells
TakeCell ==
    /\ pc = "cells"
    /\ cellAt <= Len(notebook.list)
    /\ codeCells' = codeCells \o CodeCells(<<notebook.list[cellAt]>>)
    /\ cellAt' = cellAt + 1
    /\ UNCHANGED <<notebook, extracted, pc, outsideExtractor>>

\* return codeCells.join('\n\n')
JoinCells ==
    /\ pc = "cells"
    /\ cellAt > Len(notebook.list)
    /\ extracted' = Join(codeCells, <<NL, NL>>)
    /\ pc' = "extracted"
    /\ UNCHANGED <<notebook, cellAt, codeCells, outsideExtractor>>

ExtractorNext == ReadFails \/ ReadNotebook \/ TakeCell \/ JoinCells

SpecExtractor == ExtractorInit /\ [][ExtractorNext]_vars

(***************************************************************************)
(* server.js: POST /api/auth/register, as concurrent requests              *)
(***************************************************************************)
\* the register requests in flight at the same time
Registrants == {1, 2, 3}

Usernames == {"alice", "bob"}

\* a request body: username and password, either of which may be missing ("")
RegisterBodies == [username : Usernames \cup {""}, password : {"", "secret"}]

\* the admin document of request r; uuidv4() and the bcrypt hash are tagged by the request
AdminDoc(r, username) == [id |-> r, username |-> username, password |-> <<"bcrypt", r>>]

RegisterInit ==
    /\ admins \in {<<>>, <<AdminDoc(0, "alice")>>}
    /\ \E body \in RegisterBodies : \E other \in Usernames :
           regs = [r \in Registrants |->
                      [username |-> IF r = 3 THEN other ELSE body.username,
                       password |-> IF r = 3 THEN "secret" ELSE body.password,
                       pc |-> "start", status |-> 0, detail |-> ""]]
    /\ pc = "register"
    /\ ScorerIdle
    /\ NormalizerIdle
    /\ MatcherIdle
    /\ ServerIdle
    /\ RunsIdle
    /\ ExtractorIdle
    /\ files = <<>>
    /\ disk = <<>>
    /\ analysis_results = <<>>
    /\ threshold = 0
    /\ normalizeVars = TRUE
    /\ filesData = <<>>
    /\ processedFiles = <<>>
    /\ k = 0
    /\ i = 0
    /\ j = 0
    /\ results = <<>>
    /\ res = NoResponse
    /\ fileReads = {}
    /\ pairsScored = 0
    /\ clock = 0
    /\ analysisResult = NoRecord

outsideRegister ==
    <<analyzerVars, scorerVars, normalizerVars, matcherVars, serverVars, runVars,
      extractorVars>>

RegisterAnswered(r, status, detail) ==
    [regs EXCEPT ![r].pc = "done", ![r].status = status, ![r].detail = detail]

\* if (!username || !password) return 400; else findOne is called
RegisterValidate(r) ==
    /\ regs[r].pc = "start"
    /\ regs' = IF regs[r].username = "" \/ regs[r].password = ""
               THEN RegisterAnswered(r, 400, "Username and password are required")
               ELSE [regs EXCEPT ![r].pc = "find"]
    /\ UNCHANGED <<admins, outsideRegister>>

\* await findOne({ username }) resolves: an existing user ends the request with 400
RegisterFind(r) ==
    /\ regs[r].pc = "find"
    /\ regs' = IF \E a \in DOMAIN admins : admins[a].username = regs[r].username
               THEN RegisterAnswered(r, 400, "Username already exists")
               ELSE [regs EXCEPT ![r].pc = "hash"]
    /\ UNCHANGED <<admins, outsideRegister>>

\* await bcrypt.hash(password, saltRounds) resolves
RegisterHash(r) ==
    /\ regs[r].pc = "hash"
    /\ regs' = [regs EXCEPT ![r].pc = "insert"]
    /\ UNCHANGED <<admins, outsideRegister>>

\* await insertOne(adminDoc) resolves; res.json({ message })
RegisterInsert(r) ==
    /\ regs[r].pc = "insert"
    /\ admins' = Append(admins, AdminDoc(r, regs[r].username))
    /\ regs' = RegisterAnswered(r, 200, "Admin registered successfully")
    /\ UNCHANGED outsideRegister

\* findOne, bcrypt.hash or insertOne rejects: the catch clause answers 500
RegisterFails(r) ==
    /\ regs[r].pc \in {"find", "hash", "insert"}
    /\ regs' = RegisterAnswered(r, 500, "Internal server error")
    /\ UNCHANGED <<admins, outsideRegister>>

RegisterNext ==
    \E r \in Registrants :
        \/ RegisterValidate(r)
        \/ RegisterFind(r)
        \/ RegisterHash(r)
        \/ RegisterInsert(r)
        \/ RegisterFails(r)

SpecRegister == RegisterInit /\ [][RegisterNext]_vars

(***************************************************************************)
(* server.js: the routes behind authenticateToken, as concurrent requests  *)
(***************************************************************************)
\* "Maximum file limit (300)": the limit of both upload routes
MaxStoredFiles == 300

\* the requests in flight at the same time
Requests == {1, 2}

Routes == {"upload", "bulk", "list", "count", "deleteOne", "deleteAll", "analyze",
           "latest", "history"}

\* what the Authorization header carries: nothing, a token jwt.verify rejects, a good one
Tokens == {"none", "invalid", "valid"}

\* the number of files a bulk request carries
BulkSizes == {0, 1, 2}

\* the numbers of files stored before the requests arrive
StoreSizes == {0, MaxStoredFiles - 2, MaxStoredFiles - 1, MaxStoredFiles}

\* the numbers of analyses stored before the requests arrive
StoredRuns == {0, 1}

\* the analysisResult an earlier analysis of two files without code has stored
StoredRun(uuid, timestamp) ==
    [id |-> uuid, analysis_timestamp |-> timestamp, threshold |-> 50, results |-> <<>>,
     total_files |-> 2, total_matches |-> 0]

\* the notebooks stored before the requests arrive hold no code
StoredNotebook == OnlyComment

\* the notebook every uploaded file holds
UploadedNotebook == CommentedX

\* a request that has not arrived yet
NewRequest ==
    [route |-> "", token |-> "", pc |-> "idle", status |-> 0, parts |-> 0,
     fieldsOk |-> FALSE, target |-> 0, paths |-> <<>>, count |-> 0, idx |-> 0,
     uploaded |-> 0, found |-> <<>>, results |-> <<>>]

\* variant of the middleware that lets every request through
TokenVerifiesAlways(token) == TRUE

\* authenticateToken: the header holds a token and jwt.verify accepts it
TokenVerifies(token) == token = "valid"

\* the inputs a route reads: file parts, the student fields, the :fileId parameter
RouteInputs(route) ==
    IF route = "upload" THEN {[parts |-> n, fieldsOk |-> ok, target |-> 0] :
                                 n \in {0, 1}, ok \in BOOLEAN}
    ELSE IF route = "bulk" THEN {[parts |-> n, fieldsOk |-> TRUE, target |-> 0] :
                                    n \in BulkSizes}
    ELSE IF route = "deleteOne" THEN {[parts |-> 0, fieldsOk |-> TRUE, target |-> t] :
                                         t \in {0, 1}}
    ELSE {[parts |-> 0, fieldsOk |-> TRUE, target |-> 0]}

\* the record a request ends with
Answered(req, status) == [req EXCEPT !.pc = "done", !.status = status]

\* fs.remove of some paths
RemoveFiles(contents, paths) == [p \in (DOMAIN contents) \ paths |-> contents[p]]

\* multer's diskStorage writing the files of a request under fresh names
WriteFiles(contents, paths) ==
    [p \in (DOMAIN contents) \cup paths |->
        IF p \in paths THEN UploadedNotebook ELSE contents[p]]

\* fileMetadata of an uploaded file
UploadedRecord(uuid, uploadOrder) ==
    [id |-> uuid, student_name |-> uuid, student_id |-> uuid, file_path |-> uuid,
     upload_order |-> uploadOrder]

\* the variables of the single-request model of POST /api/analyze and of the harnesses
outsideServer ==
    <<pc, threshold, normalizeVars, filesData, processedFiles, k, i, j, results, res,
      fileReads, pairsScored, analysisResult, scorerVars, normalizerVars, matcherVars,
      runVars, extractorVars, registerVars>>

ServerInit ==
    /\ \E n \in StoreSizes : \E s \in StoredRuns :
        /\ files = [m \in 1..n |-> FileRecord(m)]
        /\ disk = [m \in 1..n |-> StoredNotebook]
        /\ analysis_results = [m \in 1..s |-> StoredRun(n + m, m)]
        /\ clock = s
        /\ nextUuid = n + s + 1
    /\ reqs = [r \in Requests |-> NewRequest]
    /\ pc = "server"
    /\ threshold = 0
    /\ normalizeVars = TRUE
    /\ filesData = <<>>
    /\ processedFiles = <<>>
    /\ k = 0
    /\ i = 0
    /\ j = 0
    /\ results = <<>>
    /\ res = NoResponse
    /\ fileReads = {}
    /\ pairsScored = 0
    /\ analysisResult = NoRecord
    /\ ScorerIdle
    /\ RunsIdle
    /\ ExtractorIdle
    /\ RegisterIdle
    /\ NormalizerIdle
    /\ MatcherIdle

\* a request arrives and goes through authenticateToken: 401 without a good token, else
\* on to multer (upload routes) or to the handler
AuthenticateToken(r) ==
    /\ reqs[r].pc = "idle"
    /\ \E route \in Routes : \E token \in Tokens : \E input \in RouteInputs(route) :
          LET req == [NewRequest EXCEPT !.route = route, !.token = token,
                                        !.parts = input.parts,
                                        !.fieldsOk = input.fieldsOk,
                                        !.target = input.target]
          IN  reqs' = [reqs EXCEPT ![r] =
                          IF ~TokenVerifies(token) THEN Answered(req, 401)
                          ELSE IF route \in {"upload", "bulk"}
                               THEN [req EXCEPT !.pc = "multer"]
                               ELSE [req EXCEPT !.pc = "handler"]]
    /\ UNCHANGED <<files, disk, analysis_results, clock, nextUuid, outsideServer>>

\* upload.single / upload.array: every file part is written to the upload directory
ReceiveFiles(r) ==
    /\ reqs[r].pc = "multer"
    /\ LET paths == nextUuid..(nextUuid + reqs[r].parts - 1)
       IN  /\ disk' = WriteFiles(disk, paths)
           /\ reqs' = [reqs EXCEPT ![r].pc = "handler",
                                   ![r].paths = [n \in 1..reqs[r].parts |-> nextUuid + n - 1]]
    /\ nextUuid' = nextUuid + reqs[r].parts
    /\ UNCHANGED <<files, analysis_results, clock, outsideServer>>

\* fileFilter refuses a file that is not .ipynb: the request fails, no file is kept
FilterRejects(r) ==
    /\ reqs[r].pc = "multer"
    /\ reqs[r].parts > 0
    /\ reqs' = [reqs EXCEPT ![r] = Answered(reqs[r], 500)]
    /\ UNCHANGED <<files, disk, analysis_results, clock, nextUuid, outsideServer>>

\* POST /api/upload up to countDocuments
UploadCount(r) ==
    /\ reqs[r].pc = "handler"
    /\ reqs[r].route = "upload"
    /\ reqs' = [reqs EXCEPT ![r] =
                   IF reqs[r].parts = 0 \/ ~reqs[r].fieldsOk
                   THEN Answered(reqs[r], 400)
                   ELSE [reqs[r] EXCEPT !.pc = "counted", !.count = Len(files)]]
    /\ UNCHANGED <<files, disk, analysis_results, clock, nextUuid, outsideServer>>

\* POST /api/upload after countDocuments: the limit check, then insertOne
UploadStore(r) ==
    /\ reqs[r].pc = "counted"
    /\ reqs[r].route = "upload"
    /\ IF reqs[r].count >= MaxStoredFiles
       THEN /\ disk' = RemoveFiles(disk, {reqs[r].paths[1]})
            /\ files' = files
            /\ reqs' = [reqs EXCEPT ![r] = Answered(reqs[r], 400)]
       ELSE /\ files' = Append(files, UploadedRecord(reqs[r].paths[1], reqs[r].count + 1))
            /\ disk' = disk
            /\ reqs' = [reqs EXCEPT ![r] = Answered(reqs[r], 200)]
    /\ UNCHANGED <<analysis_results, clock, nextUuid, outsideServer>>

\* POST /api/upload: insertOne rejects, the catch clause removes the file
UploadStoreFails(r) ==
    /\ reqs[r].pc = "counted"
    /\ reqs[r].route = "upload"
    /\ reqs[r].count < MaxStoredFiles
    /\ disk' = RemoveFiles(disk, {reqs[r].paths[1]})
    /\ reqs' = [reqs EXCEPT ![r] = Answered(reqs[r], 500)]
    /\ UNCHANGED <<files, analysis_results, clock, nextUuid, outsideServer>>

\* POST /api/upload/bulk up to countDocuments
BulkCount(r) ==
    /\ reqs[r].pc = "handler"
    /\ reqs[r].route = "bulk"
    /\ reqs' = [reqs EXCEPT ![r] =
                   IF reqs[r].parts = 0
                   THEN Answered(reqs[r], 400)
                   ELSE [reqs[r] EXCEPT !.pc = "counted", !.count = Len(files), !.idx = 1]]
    /\ UNCHANGED <<files, disk, analysis_results, clock, nextUuid, outsideServer>>

\* POST /api/upload/bulk: the upload would exceed the limit, the files are removed
BulkReject(r) ==
    /\ reqs[r].pc = "counted"
    /\ reqs[r].route = "bulk"
    /\ reqs[r].count + reqs[r].parts > MaxStoredFiles
    /\ disk' = RemoveFiles(disk, Range(reqs[r].paths))
    /\ reqs' = [reqs EXCEPT ![r] = Answered(reqs[r], 400)]
    /\ UNCHANGED <<files, analysis_results, clock, nextUuid, outsideServer>>

\* POST /api/upload/bulk: one pass of the loop, insertOne of the next file
BulkInsert(r) ==
    /\ reqs[r].pc \in {"counted", "loop"}
    /\ reqs[r].route = "bulk"
    /\ reqs[r].count + reqs[r].parts <= MaxStoredFiles
    /\ reqs[r].idx <= reqs[r].parts
    /\ files' = Append(files, UploadedRecord(reqs[r].paths[reqs[r].idx],
                                            reqs[r].count + reqs[r].uploaded + 1))
    /\ reqs' = [reqs EXCEPT ![r].pc = "loop", ![r].idx = @ + 1, ![r].uploaded = @ + 1]
    /\ UNCHANGED <<disk, analysis_results, clock, nextUuid, outsideServer>>

\* POST /api/upload/bulk: insertOne of the next file rejects, the file is removed
BulkInsertFails(r) ==
    /\ reqs[r].pc \in {"counted", "loop"}
    /\ reqs[r].route = "bulk"
    /\ reqs[r].count + reqs[r].parts <= MaxStoredFiles
    /\ reqs[r].idx <= reqs[r].parts
    /\ disk' = RemoveFiles(disk, {reqs[r].paths[reqs[r].idx]})
    /\ reqs' = [reqs EXCEPT ![r].pc = "loop", ![r].idx = @ + 1]
    /\ UNCHANGED <<files, analysis_results, clock, nextUuid, outsideServer>>

\* POST /api/upload/bulk: the loop is over, the summary is sent
BulkRespond(r) ==
    /\ reqs[r].pc = "loop"
    /\ reqs[r].route = "bulk"
    /\ reqs[r].idx > reqs[r].parts
    /\ reqs' = [reqs EXCEPT ![r] = Answered(reqs[r], 200)]
    /\ UNCHANGED <<files, disk, analysis_results, clock, nextUuid, outsideServer>>

\* GET /api/files and GET /api/files/count
ReadFiles(r) ==
    /\ reqs[r].pc = "handler"
    /\ reqs[r].route \in {"list", "count"}
    /\ reqs' = [reqs EXCEPT ![r] =
                   Answered([reqs[r] EXCEPT !.count =
                                IF reqs[r].route = "list"
                                THEN Min(Len(files), FindLimit) ELSE Len(files)], 200)]
    /\ UNCHANGED <<files, disk, analysis_results, clock, nextUuid, outsideServer>>

\* DELETE /api/files/:fileId up to findOne
DeleteFind(r) ==
    /\ reqs[r].pc = "handler"
    /\ reqs[r].route = "deleteOne"
    /\ LET hits == SelectSeq(files, LAMBDA f : f.id = reqs[r].target)
       IN  reqs' = [reqs EXCEPT ![r] =
                       IF hits = <<>> THEN Answered(reqs[r], 404)
                       ELSE [reqs[r] EXCEPT !.pc = "found", !.found = <<hits[1]>>]]
    /\ UNCHANGED <<files, disk, analysis_results, clock, nextUuid, outsideServer>>

\* DELETE /api/files, DELETE /api/files/:fileId: the physical files are removed
DeleteFiles(r) ==
    /\ reqs[r].pc = "found"
    /\ reqs[r].route \in {"deleteOne", "deleteAll"}
    /\ disk' = RemoveFiles(disk, {reqs[r].found[n].file_path : n \in DOMAIN reqs[r].found})
    /\ reqs' = [reqs EXCEPT ![r].pc = "unlinked"]
    /\ UNCHANGED <<files, analysis_results, clock, nextUuid, outsideServer>>

\* DELETE /api/files/:fileId: deleteOne({ id: fileId })
DeleteRecord(r) ==
    /\ reqs[r].pc = "unlinked"
    /\ reqs[r].route = "deleteOne"
    /\ files' = SelectSeq(files, LAMBDA f : f.id # reqs[r].target)
    /\ reqs' = [reqs EXCEPT ![r] = Answered(reqs[r], 200)]
    /\ UNCHANGED <<disk, analysis_results, clock, nextUuid, outsideServer>>

\* DELETE /api/files up to find: the paths of all stored files
DeleteAllFind(r) ==
    /\ reqs[r].pc = "handler"
    /\ reqs[r].route = "deleteAll"
    /\ reqs' = [reqs EXCEPT ![r].pc = "found", ![r].found = files]
    /\ UNCHANGED <<files, disk, analysis_results, clock, nextUuid, outsideServer>>

\* DELETE /api/files: deleteMany({})
DeleteAllRecords(r) ==
    /\ reqs[r].pc = "unlinked"
    /\ reqs[r].route = "deleteAll"
    /\ files' = <<>>
    /\ reqs' = [reqs EXCEPT ![r] = Answered(reqs[r], 200)]
    /\ UNCHANGED <<disk, analysis_results, clock, nextUuid, outsideServer>>

\* POST /api/analyze up to find({}).limit(300)
AnalyzeFind(r) ==
    /\ reqs[r].pc = "handler"
    /\ reqs[r].route = "analyze"
    /\ LET found == SubSeq(files, 1, Min(Len(files), FindLimit))
       IN  reqs' = [reqs EXCEPT ![r] =
                       IF Len(found) < 2 THEN Answered(reqs[r], 400)
                       ELSE [reqs[r] EXCEPT !.pc = "found", !.found = found]]
    /\ UNCHANGED <<files, disk, analysis_results, clock, nextUuid, outsideServer>>

\* POST /api/analyze: the detector runs over the first 100 files found, with the default
\* threshold; a file that is gone from the upload directory cannot be read
AnalyzeDetect(r) ==
    /\ reqs[r].pc = "found"
    /\ reqs[r].route = "analyze"
    /\ LET found          == reqs[r].found
           filesToAnalyze == SubSeq(found, 1, Min(Len(found), AnalyzeLimit))
           fds            == [n \in DOMAIN filesToAnalyze |-> FileData(filesToAnalyze[n])]
           contents       == [p \in {fds[n].file_path : n \in DOMAIN fds} |->
                                 IF p \in DOMAIN disk THEN disk[p] ELSE Unreadable]
       IN  reqs' = [reqs EXCEPT ![r].pc = "detected",
                                ![r].count = Len(filesToAnalyze),
                                ![r].results = detectPlagiarism(fds, contents, TRUE, 50)]
    /\ UNCHANGED <<files, disk, analysis_results, clock, nextUuid, outsideServer>>

\* POST /api/analyze: the run record is inserted and sent
AnalyzeStore(r) ==
    /\ reqs[r].pc = "detected"
    /\ reqs[r].route = "analyze"
    /\ clock' = clock + 1
    /\ nextUuid' = nextUuid + 1
    /\ analysis_results' =
           Append(analysis_results,
                  [id                 |-> nextUuid,
                   analysis_timestamp |-> clock + 1,
                   threshold          |-> 50,
                   results            |-> reqs[r].results,
                   total_files        |-> reqs[r].count,
                   total_matches      |-> Len(reqs[r].results)])
    /\ reqs' = [reqs EXCEPT ![r] = Answered(reqs[r], 200)]
    /\ UNCHANGED <<files, disk, outsideServer>>

\* GET /api/results/latest: findOne(filter, options) with the sort handed over as a third
\* argument, which findOne does not read: the document found is the first one in the
\* order the collection yields, which no query option fixes; none found, the placeholder
ReadLatest(r) ==
    /\ reqs[r].pc = "handler"
    /\ reqs[r].route = "latest"
    /\ \E result \in {<<>>} \cup {<<analysis_results[n]>> : n \in DOMAIN analysis_results} :
        /\ (result = <<>>) <=> (analysis_results = <<>>)
        /\ reqs' = [reqs EXCEPT ![r] =
                       Answered([reqs[r] EXCEPT !.count = Len(analysis_results),
                                                !.found = result], 200)]
    /\ UNCHANGED <<files, disk, analysis_results, clock, nextUuid, outsideServer>>

\* GET /api/results/history: analysis_results is read
ReadResults(r) ==
    /\ reqs[r].pc = "handler"
    /\ reqs[r].route = "history"
    /\ reqs' = [reqs EXCEPT ![r] =
                   Answered([reqs[r] EXCEPT !.count = Len(analysis_results)], 200)]
    /\ UNCHANGED <<files, disk, analysis_results, clock, nextUuid, outsideServer>>

ServerNext ==
    \E r \in Requests :
        \/ AuthenticateToken(r)
        \/ ReceiveFiles(r)
        \/ FilterRejects(r)
        \/ UploadCount(r)
        \/ UploadStore(r)
        \/ UploadStoreFails(r)
        \/ BulkCount(r)
        \/ BulkReject(r)
        \/ BulkInsert(r)
        \/ BulkInsertFails(r)
        \/ BulkRespond(r)
        \/ ReadFiles(r)
        \/ DeleteFind(r)
        \/ DeleteFiles(r)
        \/ DeleteRecord(r)
        \/ DeleteAllFind(r)
        \/ DeleteAllRecords(r)
        \/ AnalyzeFind(r)
        \/ AnalyzeDetect(r)
        \/ AnalyzeStore(r)
        \/ ReadLatest(r)
        \/ ReadResults(r)

SpecServer == ServerInit /\ [][ServerNext]_vars

(***************************************************************************)
(* Properties                                                              *)
(***************************************************************************)
\* detectPlagiarism has returned to the handler: results is the list the run reports
Returned == pc \in {"returned", "insert", "respond", "done"} /\ filesData # <<>>

\* the threshold of the request lies in (0,1]
ThresholdInRange == threshold > 0 /\ threshold <= 100

\* position of a submission in processedFiles, i.e. its index in the pair loop
PosOf(id) == CHOOSE n \in DOMAIN processedFiles : processedFiles[n].file_id = id

\* the pair of r is enumerated before the pair of q by the double loop
DiscoveredBefore(r, q) ==
    \/ PosOf(r.fileA_id) < PosOf(q.fileA_id)
    \/ PosOf(r.fileA_id) = PosOf(q.fileA_id) /\ PosOf(r.fileB_id) < PosOf(q.fileB_id)

\* the result reported for the submissions at positions a and b, if any
ReportedFor(a, b) ==
    {n \in DOMAIN results : /\ results[n].fileA_id = processedFiles[a].file_id
                            /\ results[n].fileB_id = processedFiles[b].file_id}

\* the notebook behind a descriptor cannot be extracted
ExtractionFails(fileData) ==
    LET content == disk[fileData.file_path]
    IN  ~content.readable \/ content.json # "object" \/ content.cells = "malformed"

\* the submissions that yield non-empty normalized code
UsableCount ==
    Cardinality({n \in DOMAIN files :
        trim(normalizeCode(extractCodeFromNotebook(disk[files[n].file_path]), TRUE)) # <<>>})

\* C1: the score of (A,B) equals the score of (B,A) for every pair of normalized texts
\* (the scorer applied in both orders gives one value).
C1_ScorerSymmetric ==
    (scoreAB # -1 /\ scoreBA # -1) => scoreAB = scoreBA

\* C2: in a run with a threshold in (0,1], every two processed submissions with
\* identical normalized code are in the results with combined score exactly 100.
C2_IdenticalCodeAt100 ==
    (Returned /\ ThresholdInRange) =>
        \A a \in DOMAIN processedFiles : \A b \in DOMAIN processedFiles :
            (a < b /\ processedFiles[a].normalized_code = processedFiles[b].normalized_code)
                => \E n \in ReportedFor(a, b) : results[n].similarity = 10000

\* C2 witness: two submissions with different raw text and the same normalized code
\* are reported at 100 in a run with an in-range threshold.
C2_Witness ==
    /\ Returned
    /\ ThresholdInRange
    /\ \E a \in DOMAIN processedFiles : \E b \in DOMAIN processedFiles :
          /\ a < b
          /\ processedFiles[a].normalized_code = processedFiles[b].normalized_code
          /\ processedFiles[a].raw_code # processedFiles[b].raw_code
          /\ \E n \in ReportedFor(a, b) : results[n].similarity = 10000

\* C3: the returned list is in descending order of combined score, and results of
\* equal score are in pair discovery order.
C3_SortedStable ==
    Returned =>
        \A a \in DOMAIN results : \A b \in DOMAIN results :
            a < b => \/ results[a].similarity > results[b].similarity
                     \/ /\ results[a].similarity = results[b].similarity
                        /\ DiscoveredBefore(results[a], results[b])

\* C3 witness: a returned list in which the sort moved a later pair ahead of an earlier
\* one and which holds two results of equal score.
C3_Witness ==
    /\ Returned
    /\ \E a \in DOMAIN results : \E b \in DOMAIN results :
          a < b /\ DiscoveredBefore(results[b], results[a])
    /\ \E a \in DOMAIN results : \E b \in DOMAIN results :
          a < b /\ results[a].similarity = results[b].similarity

\* C4: for every pair of usable submissions, a result for the pair is in the returned
\* list exactly if the pair's combined score (as scored in loop order) is >= threshold.
C4_KeptIffMeetsThreshold ==
    pc = "returned" =>
        LET usable == ProcessAll(filesData, disk, TRUE, 1)
        IN  /\ Len(usable) >= 2 =>
                \A a \in DOMAIN usable : \A b \in DOMAIN usable :
                    a < b =>
                        LET sim  == PairSimilarity(usable[a], usable[b])
                            kept == \E n \in DOMAIN results :
                                        /\ results[n].fileA_id = usable[a].file_id
                                        /\ results[n].fileB_id = usable[b].file_id
                        IN  kept <=> (sim[1] * 100 >= threshold * sim[2])
            /\ Len(usable) < 2 => results = <<>>

\* C4 witness: a run that keeps one pair and drops another.
C4_Witness ==
    /\ pc = "returned"
    /\ Len(processedFiles) >= 3
    /\ results # <<>>
    /\ 2 * Len(results) < Len(processedFiles) * (Len(processedFiles) - 1)

\* C5: no unordered pair of submissions is reported twice, and no result pairs a
\* submission with itself.
C5_PairsUnique ==
    /\ \A n \in DOMAIN results : results[n].fileA_id # results[n].fileB_id
    /\ \A n \in DOMAIN results : \A m \in DOMAIN results :
          n # m => {results[n].fileA_id, results[n].fileB_id}
                       # {results[m].fileA_id, results[m].fileB_id}

\* C5 witness: a returned list with every pair of three submissions in it.
C5_Witness == Returned /\ Len(processedFiles) = 3 /\ Len(results) = 3

\* C6: every reported combined score lies in [0,100], whatever the threshold.
C6_ScoreInRange ==
    /\ \A n \in DOMAIN results :
          results[n].similarity >= 0 /\ results[n].similarity <= 10000
    /\ \A r \in DOMAIN analysis_results : \A n \in DOMAIN analysis_results[r].results :
          /\ analysis_results[r].results[n].similarity >= 0
          /\ analysis_results[r].results[n].similarity <= 10000

\* C6 witness: a persisted run that reports a pair at 0 and a pair at 100.
C6_Witness ==
    \E r \in DOMAIN analysis_results :
        /\ \E n \in DOMAIN analysis_results[r].results :
              analysis_results[r].results[n].similarity = 0
        /\ \E n \in DOMAIN analysis_results[r].results :
              analysis_results[r].results[n].similarity = 10000

\* C7: a run of the same submissions at any threshold t2 >= threshold returns a subset
\* of what this run returned.
C7_ThresholdMonotone ==
    pc = "returned" =>
        \A t2 \in Thresholds :
            t2 >= threshold =>
                Range(detectPlagiarism(filesData, disk, normalizeVars, t2)) \subseteq Range(results)

\* C7 witness: a run whose result set strictly shrinks, without becoming empty, at a
\* higher threshold.
C7_Witness ==
    /\ pc = "returned"
    /\ \E t2 \in Thresholds :
          /\ t2 > threshold
          /\ detectPlagiarism(filesData, disk, normalizeVars, t2) # <<>>
          /\ Range(detectPlagiarism(filesData, disk, normalizeVars, t2)) # Range(results)

\* C8: with fewer than 2 usable submissions the request ends in an error response and
\* no AnalysisRun is persisted.
C8_InsufficientInputFails ==
    (pc = "done" /\ UsableCount < 2) => (res.status >= 400 /\ analysis_results = <<>>)

\* C9: a threshold outside (0,1] is rejected before any work: no file is read, no pair
\* is scored, nothing is persisted and the request is not answered with a run.
C9_ThresholdRejected ==
    (pc # "idle" /\ ~ThresholdInRange) =>
        /\ fileReads = {}
        /\ pairsScored = 0
        /\ analysis_results = <<>>
        /\ res.status # 200

\* C10: a submission whose extraction fails is dropped alone: the run returns what a
\* run over the input without the failed submissions returns.
C10_FailureDropsOnlyThatFile ==
    (pc = "returned" /\ \E n \in DOMAIN filesData : ExtractionFails(filesData[n])) =>
        results = detectPlagiarism(SelectSeq(filesData, LAMBDA fd : ~ExtractionFails(fd)),
                                   disk, normalizeVars, threshold)

\* C10 witness: a run with a failed submission that still reports a pair.
C10_Witness ==
    /\ pc = "returned"
    /\ \E n \in DOMAIN filesData : ExtractionFails(filesData[n])
    /\ results # <<>>

\* the run record is the whole outcome of this request's detection: the full sorted list
\* detectPlagiarism computes from the descriptors, with the matching count and threshold
CompleteRun(run) ==
    /\ run.results = detectPlagiarism(filesData, disk, normalizeVars, threshold)
    /\ run.total_matches = Len(run.results)
    /\ run.threshold = threshold
    /\ \A a \in DOMAIN run.results : \A b \in DOMAIN run.results :
          a < b => run.results[a].similarity >= run.results[b].similarity

\* C11: every run that is persisted or returned to the caller holds the full, sorted
\* result list over all compared pairs, and a request that ends in an error (the find,
\* the detector or the insert failed) leaves no run record.
C11_RunCompleteOrAbsent ==
    /\ \A r \in DOMAIN analysis_results : CompleteRun(analysis_results[r])
    /\ \A n \in DOMAIN res.body : CompleteRun(res.body[n])
    /\ (pc = "done" /\ res.status # 200) => analysis_results = <<>>
    /\ (pc = "done" /\ res.status = 200) => analysis_results = res.body

\* C11 witness: a run of three compared pairs that is both persisted and returned.
C11_Witness ==
    /\ pc = "done"
    /\ res.status = 200
    /\ analysis_results = res.body
    /\ Len(analysis_results[1].results) = 3
    /\ pairsScored = 3

\* C12: normalizing normalized code changes nothing, with identifier anonymization on or
\* off: normalizeCode(normalizeCode(c)) = normalizeCode(c) for every raw text c.
C12_NormalizeIdempotent ==
    /\ renormA # Unset => renormA = normA
    /\ renormB # Unset => renormB = normB

\* C13: with identifier anonymization on, two texts of one program that differ only in
\* comments, whitespace and the spelling of identifiers have the same normalized code and
\* the same fingerprint.
C13_VariantsCollapse ==
    (normalizeVars /\ normA # Unset /\ normB # Unset) =>
        /\ normA = normB
        /\ calculateCodeHash(normA) = calculateCodeHash(normB)

\* the lines of code1 (trimmed, non-empty) that occur in code2 as they are
ExactMatchCount ==
    Cardinality({n \in DOMAIN linesA : \E m \in DOMAIN linesB : linesB[m] = linesA[n]})

\* C14: findMatchingLines never holds more than 20 matches and goes through no line once
\* 20 are collected; with at least 20 lines of the first text found exactly in the second
\* it returns exactly 20; the result of the pair carries its number of matches as
\* total_matches.
C14_MatchesCapped ==
    /\ Len(matches) <= MaxMatches
    /\ Len(matches) = MaxMatches => scanned = matches[MaxMatches].lineA
    /\ pc = "matched" =>
          /\ matches = findMatchingLines(code1, code2, MaxMatches)
          /\ ExactMatchCount >= MaxMatches => Len(matches) = MaxMatches
          /\ LET fileA == [student_name |-> 1, student_id |-> 1, file_id |-> 1,
                           normalized_code |-> code1]
                 fileB == [student_name |-> 2, student_id |-> 2, file_id |-> 2,
                           normalized_code |-> code2]
                 r     == PairResult(fileA, fileB, <<1, 1>>)
             IN  r.matching_lines = matches /\ r.total_matches = Len(matches)

\* C14 witness: the scan has returned 20 matches with lines of the first text left, lines
\* that would have matched among them.
C14_Witness ==
    /\ pc = "matched"
    /\ Len(matches) = MaxMatches
    /\ scanned < Len(linesA)
    /\ ExactMatchCount > MaxMatches

\* C15: the total_files of a run record is the number of submissions that yielded
\* non-empty normalized code and went into the pairwise comparison.
C15_TotalFilesCountsConsidered ==
    /\ \A r \in DOMAIN analysis_results :
          analysis_results[r].total_files = Len(processedFiles)
    /\ \A n \in DOMAIN res.body : res.body[n].total_files = Len(processedFiles)

\* C16: whatever the interleaving of upload, bulk upload and delete requests, the files
\* collection never holds more than 300 records.
C16_StoreWithinLimit == Len(files) <= MaxStoredFiles

\* C17: an analysis request that finds N stored submissions, 2 <= N <= 300, hands all N
\* to the detector: none of them is left out of the run.
C17_AllStoredAnalyzed ==
    \A r \in DOMAIN reqs :
        (reqs[r].route = "analyze" /\ reqs[r].pc = "detected"
            /\ Len(reqs[r].found) >= 2 /\ Len(reqs[r].found) <= FindLimit)
        => reqs[r].count = Len(reqs[r].found)

\* C18: a step of a request that carries no token or an invalid one is its 401 answer,
\* on every route, and leaves the stored files, the file records and the analysis records
\* as they are; a file is written to the upload directory only by a request that has
\* passed the token check.
C18_NoTokenNoEffect ==
    [][(\A r \in Requests :
           (reqs'[r] # reqs[r] /\ reqs'[r].token # "valid") =>
               (/\ reqs'[r].status = 401
                /\ reqs'[r].pc = "done"
                /\ reqs'[r].paths = <<>>
                /\ files' = files
                /\ disk' = disk
                /\ analysis_results' = analysis_results))
       /\ ((DOMAIN disk' \ DOMAIN disk # {}) =>
               (\E r \in Requests : /\ reqs[r].pc = "multer"
                                    /\ reqs[r].token = "valid"
                                    /\ reqs'[r].pc = "handler"))]_vars

\* C18 witness: an upload with a file and an invalid token, and an analysis without a
\* token, have both been answered 401 with files stored.
C18_Witness ==
    /\ files # <<>>
    /\ \E r \in DOMAIN reqs : \E q \in DOMAIN reqs :
          /\ reqs[r].route = "upload" /\ reqs[r].token = "invalid"
          /\ reqs[r].parts = 1 /\ reqs[r].status = 401
          /\ reqs[q].route = "analyze" /\ reqs[q].token = "none"
          /\ reqs[q].status = 401

StoredPairScore(a, b) ==
    LET codeA == normalizeCode(extractCodeFromNotebook(disk[a]), normalizeVars)
        codeB == normalizeCode(extractCodeFromNotebook(disk[b]), normalizeVars)
    IN  IF calculateCodeHash(codeA) = calculateCodeHash(codeB)
        THEN <<1, 1>>
        ELSE calculateSimilarity(codeA, codeB)

\* C20: line evidence is gated by the score: a result has matching lines only if its
\* pair scores above 0.7, a result whose pair scores between the threshold and 0.7 has
\* an empty matching_lines and total_matches 0, and findMatchingLines has been called
\* for no pair that scores below the threshold or not above 0.7.
C20_LineEvidenceGated ==
    /\ \A n \in DOMAIN results :
           LET score == StoredPairScore(results[n].fileA_id, results[n].fileB_id)
           IN  /\ results[n].matching_lines # <<>> => Exceeds(score, 7, 10)
               /\ (MeetsThreshold(score, threshold) /\ ~Exceeds(score, 7, 10)) =>
                      /\ results[n].matching_lines = <<>>
                      /\ results[n].total_matches = 0
    /\ \A p \in lineMatched :
           /\ MeetsThreshold(StoredPairScore(p[1], p[2]), threshold)
           /\ Exceeds(StoredPairScore(p[1], p[2]), 7, 10)

\* C20 witness: with threshold 0.5 the detector has returned a result whose pair scores
\* between 0.5 and 0.7, without lines, and one whose pair scores above 0.7, with lines,
\* the pair of which is not a pair of duplicates.
C20_Witness ==
    /\ pc = "returned"
    /\ threshold = 50
    /\ \E n \in DOMAIN results :
           /\ ~Exceeds(StoredPairScore(results[n].fileA_id, results[n].fileB_id), 7, 10)
           /\ results[n].matching_lines = <<>>
    /\ \E n \in DOMAIN results :
           /\ Exceeds(StoredPairScore(results[n].fileA_id, results[n].fileB_id), 7, 10)
           /\ results[n].similarity < 10000
           /\ results[n].matching_lines # <<>>
           /\ <<results[n].fileA_id, results[n].fileB_id>> \in lineMatched

\* the positions of the second text's lines equal to line n of the first
ExactIn(n) == {m \in DOMAIN linesB : linesB[m] = linesA[n]}

\* the matches recorded for line n of the first text
MatchesOf(n) == {m \in DOMAIN matches : matches[m].lineA = n}

\* line n of the first text is recorded once, as a 100% match at the first equal line
RecordedExact(n) ==
    /\ \E m \in DOMAIN matches : MatchesOf(n) = {m}
    /\ \A m \in MatchesOf(n) :
           /\ matches[m].similarity = 1000
           /\ matches[m].code = linesA[n]
           /\ matches[m].lineB \in ExactIn(n)
           /\ \A o \in ExactIn(n) : matches[m].lineB <= o

\* the matches are in strictly increasing order of the line of the first text
MatchesAscend ==
    \A a \in DOMAIN matches : \A b \in DOMAIN matches :
        a < b => matches[a].lineA < matches[b].lineA

\* C21 as stated: once findMatchingLines has returned, every line of the first text
\* that is equal to a line of the second is recorded as a 100% match at the first equal
\* line, and the matches ascend in the line of the first text.
C21_EveryExactLineRecorded ==
    pc = "matched" =>
        /\ \A n \in DOMAIN linesA : ExactIn(n) # {} => RecordedExact(n)
        /\ MatchesAscend

\* C21 amended: every line of the first text that the loop has gone through (the loop
\* stops once 20 matches are collected) and that is equal to a line of the second is
\* recorded once, as a 100% match at the first equal line, also where an earlier line of
\* the second text is similar to it; the matches ascend in the line of the first text.
C21_ScannedExactLineRecorded ==
    /\ \A n \in 1..scanned : ExactIn(n) # {} => RecordedExact(n)
    /\ \A m \in DOMAIN matches : matches[m].lineA <= scanned
    /\ MatchesAscend

\* C21 witness: the scan has returned with a long line recorded at 100% whose first equal
\* line in the second text is line 2, behind a line similar to it.
C21_Witness ==
    /\ pc = "matched"
    /\ \E m \in DOMAIN matches :
           /\ matches[m].similarity = 1000
           /\ matches[m].lineB = 2
           /\ Len(matches[m].code) > 10
           /\ Exceeds(compareTwoStrings(matches[m].code, linesB[1]), 85, 100)

\* the matches whose line of the second text is not equal to the line of the first
NonExactMatches ==
    {m \in DOMAIN matches : linesB[matches[m].lineB] # linesA[matches[m].lineA]}

\* the lines of the second text the similar-line search accepts for line n of the first
SimilarIn(n) ==
    {o \in DOMAIN linesB :
        /\ Len(linesB[o]) > 10
        /\ Exceeds(compareTwoStrings(linesA[n], linesB[o]), 85, 100)}

\* a non-exact match is for a line of the first text longer than 10 characters without
\* an equal line in the second, at the first line of the second text that is longer than
\* 10 characters and more than 0.85 similar
NonExactWellFormed(m) ==
    LET n == matches[m].lineA
    IN  /\ Len(linesA[n]) > 10
        /\ ExactIn(n) = {}
        /\ matches[m].lineB \in SimilarIn(n)
        /\ \A o \in SimilarIn(n) : matches[m].lineB <= o

\* C22 as stated: a non-exact match is recorded only for a line of the first text longer
\* than 10 characters without an equal line in the second, at the first line of the
\* second text longer than 10 characters and more than 0.85 similar, and the similarity
\* recorded for it is above 85 (850 tenths of a percent).
C22_NonExactAbove85 ==
    \A m \in NonExactMatches :
        /\ NonExactWellFormed(m)
        /\ matches[m].similarity > 850

\* C22 amended: the same, with the similarity before rounding above 0.85 and the
\* similarity recorded, which is rounded to one decimal, at least 85.0 and at most 100.0.
C22_NonExactAtLeast85 ==
    \A m \in NonExactMatches :
        /\ NonExactWellFormed(m)
        /\ Exceeds(compareTwoStrings(linesA[matches[m].lineA], linesB[matches[m].lineB]),
                   85, 100)
        /\ matches[m].similarity >= 850
        /\ matches[m].similarity <= 1000

\* C22 witness: the scan has returned a non-exact match at a line of the second text
\* that lies behind a line too unlike to be taken, for a line of the first text that is
\* longer than 10 characters.
C22_Witness ==
    /\ pc = "matched"
    /\ \E m \in NonExactMatches :
           /\ matches[m].lineB > 1
           /\ Len(linesA[matches[m].lineA]) > 10

\* the source texts of the cells typed as code, a list source concatenated
RECURSIVE SourceTexts(_)
SourceTexts(cells) ==
    IF cells = <<>> THEN <<>>
    ELSE (IF cells[1].cell_type = "code"
          THEN <<Join(cells[1].source.parts, <<>>)>>
          ELSE <<>>) \o SourceTexts(Tail(cells))

\* the extractor taken cell by cell returns what the detector's extractor returns
ExtractorsAgree ==
    pc = "extracted" => extracted = extractCodeFromNotebook(notebook)

\* C23: for a well-formed notebook the text returned is the source texts of exactly the
\* cells typed as code, in their order, with one blank line between consecutive ones; a
\* list source is concatenated without separator and other cells add nothing.
C23_CodeCellsJoined ==
    (pc = "extracted" /\ notebook.readable /\ notebook.json = "object"
        /\ notebook.cells = "list") =>
        extracted = Join(SourceTexts(notebook.list), <<NL, NL>>)

\* the generic names by rank of first appearance: slot 1 comes first in every program
GenericSpelling == << <<"v","a","r">> \o Decimal(0), <<"v","a","r">> \o Decimal(1) >>

\* C24: with anonymization on, every identifier of the code is replaced, at each of its
\* occurrences, by var<k> with k its rank in order of first appearance, so that distinct
\* identifiers get distinct names, and print is left as it is, also when the code already
\* uses names of the form var<k>.
C24_IdentifiersRanked ==
    (normalizeVars /\ normA # Unset) =>
        \A prog \in Programs : \A sp \in Spellings :
            rawA = Render(prog, sp, PlainLayout) =>
                normA = Render(prog, GenericSpelling, PlainLayout)

\* the files handed to the detector
HandedIn == {filesData[n].file_id : n \in DOMAIN filesData}

\* C25: extraction and comparison are separate phases of a run: a file is read, and a
\* normalized file is added, only while no pair has been scored; a pair is scored only
\* once every file handed in has been read; and a step taken inside the pair loop reads
\* no file and touches neither the upload directory, the collections nor the response.
C25_PhasesSeparated ==
    [][/\ (fileReads' # fileReads \/ Len(processedFiles') > Len(processedFiles)) =>
              (pairsScored = 0 /\ pairsScored' = 0)
       /\ pairsScored' > pairsScored =>
              (HandedIn \subseteq fileReads /\ k > Len(filesData))
       /\ (pc = "compare" /\ pc' = "compare") =>
              (/\ fileReads' = fileReads
               /\ disk' = disk
               /\ files' = files
               /\ analysis_results' = analysis_results
               /\ res' = res
               /\ processedFiles' = processedFiles)]_vars

\* C25 witness: two pairs have been scored and the loop goes on, all three files having
\* been read and normalized before.
C25_Witness ==
    /\ pc = "compare"
    /\ pairsScored = 2
    /\ Cardinality(fileReads) = 3
    /\ Len(processedFiles) = 3

\* C26: a run that has begun ends: the detector returns its result list (or rejects, and
\* the request is answered 500) and the request is answered, after at most N(N-1)/2
\* scored pairs for N files handed in; a call of findMatchingLines ends, after at most
\* one pass over the lines of its first text.
C26_RunTerminates ==
    /\ [](2 * pairsScored <= Len(filesData) * (Len(filesData) - 1) \/ filesData = <<>>)
    /\ [](scanned <= Len(linesA))
    /\ [](pc = "compare" => (1 <= i /\ i < j /\ j <= Len(processedFiles)))
    /\ (pc \in {"extract", "compare", "sort"}) ~> (pc \in {"returned", "done"})
    /\ (pc \in RunPositions) ~> (pc = "done")
    /\ (pc \in MatchPositions) ~> (pc = "matched")

\* C26 witness: a run over three usable files has scored its three pairs and has been
\* answered.
C26_Witness ==
    /\ pc = "done"
    /\ res.status = 200
    /\ Len(filesData) = 3
    /\ pairsScored = 3

\* C27: whatever the interleaving of register requests, no two admin records have the
\* same username, and of the requests for one username at most one is answered with
\* success.
C27_UsernamesUnique ==
    /\ \A a \in DOMAIN admins : \A b \in DOMAIN admins :
           a # b => admins[a].username # admins[b].username
    /\ \A u \in Usernames :
           Cardinality({r \in DOMAIN regs : regs[r].username = u /\ regs[r].status = 200}) <= 1

\* the files of request r that are in the upload directory
KeptFiles(r) == {n \in DOMAIN reqs[r].paths : reqs[r].paths[n] \in DOMAIN disk}

\* C28: no orphaned upload: once an upload request has been answered, a file it wrote
\* for which it created no record is gone from the upload directory: a single upload
\* that did not succeed has left no file, and a bulk upload has left at most as many files
\* as it created records, none if it was refused.
C28_NoOrphanedUpload ==
    \A r \in DOMAIN reqs :
        (reqs[r].pc = "done" /\ reqs[r].route \in {"upload", "bulk"}) =>
            /\ reqs[r].status # 200 => KeptFiles(r) = {}
            /\ Cardinality(KeptFiles(r)) <= reqs[r].uploaded
                   + (IF reqs[r].route = "upload" /\ reqs[r].status = 200 THEN 1 ELSE 0)

\* C29: the stored file records, in the order in which they were inserted, carry strictly
\* increasing upload_order values: the values are pairwise distinct and a file uploaded
\* later has a larger one than every file still stored that was uploaded earlier.
C29_UploadOrderIncreases ==
    \A n \in 1..(Len(files) - 1) : files[n].upload_order < files[n + 1].upload_order

\* C30: GET /api/results/latest answers with the analysis that carries the greatest
\* analysis_timestamp of those stored when it reads the collection, the one the most
\* recent analysis stored, and with the empty placeholder only when none is stored.
C30_LatestIsNewest ==
    \A r \in DOMAIN reqs :
        (reqs[r].pc = "done" /\ reqs[r].route = "latest" /\ reqs[r].status = 200) =>
            IF reqs[r].count = 0 THEN reqs[r].found = <<>>
            ELSE /\ reqs[r].found = <<analysis_results[reqs[r].count]>>
                 /\ \A n \in 1..reqs[r].count :
                        analysis_results[n].analysis_timestamp
                            <= reqs[r].found[1].analysis_timestamp

====
